---------------------------- MODULE Spec2Model ----------------------------
(***************************************************************************)
(* misFinanzasWeb: a personal-finance tracker (React).  The model holds    *)
(* the state of the App component, of its two list views (AccountsTable,   *)
(* AccountDetail), the browser's localStorage and the files that are       *)
(* exported and imported; every handler of the source is one action.       *)
(*                                                                         *)
(* Conventions.  Text is a sequence of one-character strings, so that      *)
(* trim, toLowerCase and includes are computed.  A value that may be null  *)
(* is a sequence of length 0 (null) or 1.  Ids are positive integers       *)
(* handed out by a counter (crypto.randomUUID never repeats); NULL is the  *)
(* id of nothing.  Array indices are 0-based as in the source and -1 is    *)
(* "not found".  A number is a binary floating-point value with a          *)
(* significand of MantissaBits bits, in units of the smallest amount.      *)
(***************************************************************************)
EXTENDS Integers, Sequences, FiniteSets, TLC

(***************************************************************************)
(* Bounds of the model.                                                    *)
(***************************************************************************)
MantissaBits == 3
MaxLedger == 3
MaxListed == 6

NULL == 0

(***************************************************************************)
(* Text.                                                                   *)
(***************************************************************************)
toLowerCaseChar(c) == IF c = "A" THEN "a" ELSE IF c = "B" THEN "b" ELSE c

\* A lower-casing that leaves the text as it is.
toLowerCaseKeepsCase(s) == s

toLowerCase(s) == [i \in 1..Len(s) |-> toLowerCaseChar(s[i])]

RECURSIVE trimStart(_)
trimStart(s) == IF s # <<>> /\ Head(s) = " " THEN trimStart(Tail(s)) ELSE s

RECURSIVE trimEnd(_)
trimEnd(s) ==
    IF s # <<>> /\ s[Len(s)] = " " THEN trimEnd(SubSeq(s, 1, Len(s) - 1)) ELSE s

trim(s) == trimEnd(trimStart(s))

\* String.prototype.includes: needle occurs in hay as a contiguous run.
includes(hay, needle) ==
    \E i \in 0..(Len(hay) - Len(needle)) :
        \A j \in 1..Len(needle) : hay[i + j] = needle[j]

\* UTF-16 code units of the characters, for the < and > of two strings.
charCode(c) ==
    CASE c = " " -> 32 [] c = "A" -> 65 [] c = "B" -> 66 [] c = "a" -> 97 [] OTHER -> 98

RECURSIVE stringLess(_, _)
stringLess(s, t) ==
    IF t = <<>> THEN FALSE
    ELSE IF s = <<>> THEN TRUE
    ELSE IF charCode(Head(s)) # charCode(Head(t))
         THEN charCode(Head(s)) < charCode(Head(t))
         ELSE stringLess(Tail(s), Tail(t))

(***************************************************************************)
(* Numbers.  JavaScript's + and - on numbers round the exact result to    *)
(* the nearest representable value, ties to the even significand.          *)
(***************************************************************************)
RECURSIVE pow2(_)
pow2(n) == IF n = 0 THEN 1 ELSE 2 * pow2(n - 1)

RECURSIVE ulp(_, _)
ulp(n, q) == IF n \div q < pow2(MantissaBits) THEN q ELSE ulp(n, 2 * q)

roundMagnitude(n) ==
    LET q  == ulp(n, 1)
        m  == n \div q
        lo == m * q
        r  == n - lo
    IN  IF 2 * r < q THEN lo
        ELSE IF 2 * r > q THEN lo + q
        ELSE IF m % 2 = 0 THEN lo ELSE lo + q

roundNumber(n) == IF n < 0 THEN 0 - roundMagnitude(0 - n) ELSE roundMagnitude(n)

numberAdd(a, b) == roundNumber(a + b)

numberSub(a, b) == roundNumber(a - b)

(***************************************************************************)
(* Arrays.                                                                 *)
(***************************************************************************)
ids(s) == [i \in 1..Len(s) |-> s[i].id]

\* Array.prototype.findIndex on the id: 0-based, -1 when no element has it.
findIndex(s, id) ==
    IF \E i \in 1..Len(s) : s[i].id = id
    THEN (CHOOSE i \in 1..Len(s) : s[i].id = id /\ \A j \in 1..(i - 1) : s[j].id # id) - 1
    ELSE -1

removeAt(s, i) == SubSeq(s, 1, i) \o SubSeq(s, i + 2, Len(s))

insertAt(s, i, x) == SubSeq(s, 1, i) \o <<x>> \o SubSeq(s, i + 1, Len(s))

\* Array.prototype.slice(start, end) with 0 <= start: 0-based, end exclusive.
slice(s, start, end) ==
    SubSeq(s, start + 1, IF end < Len(s) THEN end ELSE Len(s))

\* An arrayMove that exchanges the two elements instead of moving one.
arrayMoveSwaps(array, from, to) ==
    [array EXCEPT ![from + 1] = array[to + 1], ![to + 1] = array[from + 1]]

\* A move that always puts the element before the one at the target index.
arrayMoveBeforeTarget(array, from, to) ==
    insertAt(removeAt(array, from), IF from < to THEN to - 1 ELSE to, array[from + 1])

\* @dnd-kit/sortable arrayMove for indices that exist: splice the element out
\* at from, splice it in at to.
arrayMove(array, from, to) == insertAt(removeAt(array, from), to, array[from + 1])

\* Math.ceil(n / size) for n >= 0.
ceilDiv(n, size) == (n + size - 1) \div size

(***************************************************************************)
(* Domain model: Transaction and Account records, and the summary.         *)
(***************************************************************************)
INCOME == "income"
EXPENSE == "expense"

TransactionTypes == {INCOME, EXPENSE}

Transaction(id, description, amount, date, type) ==
    [id |-> id, description |-> description, amount |-> amount, date |-> date,
     type |-> type]

Account(id, name, transactions) ==
    [id |-> id, name |-> name, transactions |-> transactions]

isIncome(t) == t.type = INCOME

isExpense(t) == t.type = EXPENSE

\* array.reduce((sum, t) => sum + t.amount, 0): a left fold of number additions.
RECURSIVE reduceAmounts(_)
reduceAmounts(ts) ==
    IF ts = <<>> THEN 0
    ELSE numberAdd(reduceAmounts(SubSeq(ts, 1, Len(ts) - 1)), ts[Len(ts)].amount)

calculateAccountSummary(account) ==
    LET income  == reduceAmounts(SelectSeq(account.transactions, isIncome))
        expense == reduceAmounts(SelectSeq(account.transactions, isExpense))
    IN  [income |-> income, expense |-> expense, balance |-> numberSub(income, expense)]

\* AccountsTable computes the row's summary with its own copy of the function.
calculateSummary(account) ==
    LET income  == reduceAmounts(SelectSeq(account.transactions, isIncome))
        expense == reduceAmounts(SelectSeq(account.transactions, isExpense))
        balance == numberSub(income, expense)
    IN  [income |-> income, expense |-> expense, balance |-> balance]

(***************************************************************************)
(* The state.                                                              *)
(***************************************************************************)
VARIABLES
    accounts,               \* App: useLocalStorage('accounts', [])
    selectedAccountId,      \* App: useState(null)
    accountSearchTerm,      \* App: useState('')
    accountSortConfig,      \* App: useState(null), null or {key, direction}
    transactionSearchTerm,  \* App: useState('')
    isModalOpen,            \* App: useState(false)
    modalContent,           \* App: useState(null): "account", "transaction", "none"
    accountToEdit,          \* App: useState(null), null or an Account
    transactionToEdit,      \* App: useState(null), null or a Transaction
    transactionTypeForForm, \* App: useState(TransactionType.EXPENSE)
    showAllAccounts,        \* App: useState(false)
    accountsCurrentPage,    \* AccountsTable: useState(1)
    currentPage,            \* AccountDetail: useState(1)
    showAll,                \* AccountDetail: useState(false)
    localStorage,           \* the browser's store: the two keys the App uses
    download,               \* the last backup file the export handed to the browser,
                            \* with the accounts the App held when it was made
    reads,                  \* FileReader reads that have not completed yet
    fileInput,              \* the value of the file-picker input
    notice,                 \* the last blocking notice (window.alert) shown
    crashed,                \* a render threw: React has unmounted the tree
    nextId,                 \* the ids crypto.randomUUID has handed out so far
    last                    \* the handler that ran last, and its arguments

appVars == <<accounts, selectedAccountId, accountSearchTerm, accountSortConfig,
             transactionSearchTerm, showAllAccounts>>

modalVars == <<isModalOpen, modalContent, accountToEdit, transactionToEdit,
               transactionTypeForForm>>

pageVars == <<accountsCurrentPage, currentPage, showAll>>

ioVars == <<localStorage, download, reads, fileInput, notice>>

vars == <<appVars, modalVars, pageVars, ioVars, crashed, nextId, last>>

ACCOUNTS_PER_PAGE == 5
TRANSACTIONS_PER_PAGE == 5

(***************************************************************************)
(* The views the App derives from its state (useMemo).                     *)
(***************************************************************************)
\* App.selectedAccount: null, or the account that has the selected id.
selectedAccountOf(accs, selectedId) ==
    IF selectedId = NULL THEN <<>>
    ELSE SelectSeq(SubSeq(accs, 1, Len(accs)), LAMBDA acc : acc.id = selectedId)

firstOrNull(s) == IF s = <<>> THEN <<>> ELSE <<Head(s)>>

selectedAccount == firstOrNull(selectedAccountOf(accounts, selectedAccountId))

\* The filter stage of sortedAndFilteredAccounts.
filterAccounts(accs, term) ==
    IF trim(term) = <<>> THEN accs
    ELSE SelectSeq(accs, LAMBDA account :
                            includes(toLowerCase(account.name), toLowerCase(term)))

\* The comparator of the name sort returns a negative number for (a, b).
nameComparatorNegative(a, b, config) ==
    LET aValue == toLowerCase(a.name)
        bValue == toLowerCase(b.name)
    IN  IF stringLess(aValue, bValue) THEN config.direction = "asc"
        ELSE IF stringLess(bValue, aValue) THEN config.direction = "desc"
        ELSE FALSE

\* Array.prototype.sort is stable: x goes before the first element that the
\* comparator orders after it.
RECURSIVE insertSorted(_, _, _)
insertSorted(sorted, x, config) ==
    IF sorted = <<>> THEN <<x>>
    ELSE IF nameComparatorNegative(x, Head(sorted), config) THEN <<x>> \o sorted
    ELSE <<Head(sorted)>> \o insertSorted(Tail(sorted), x, config)

RECURSIVE sortByName(_, _)
sortByName(list, config) ==
    IF list = <<>> THEN <<>>
    ELSE insertSorted(sortByName(SubSeq(list, 1, Len(list) - 1), config),
                      list[Len(list)], config)

\* sortedAndFilteredAccounts.  For the keys balance, income and expense the
\* comparator reads sortConfig.key, and the App has no sortConfig: the first
\* comparison throws a ReferenceError (sort compares once the list has two
\* elements).  threw: the render threw; list: the accounts handed to the table.
sortedAndFilteredAccountsOf(accs, term, sortConfig) ==
    LET filtered == filterAccounts(accs, term)
    IN  IF sortConfig = <<>> THEN [threw |-> FALSE, list |-> filtered]
        ELSE IF sortConfig[1].key = "name"
             THEN [threw |-> FALSE, list |-> sortByName(filtered, sortConfig[1])]
        ELSE IF Len(filtered) >= 2 THEN [threw |-> TRUE, list |-> <<>>]
        ELSE [threw |-> FALSE, list |-> filtered]

sortedAndFilteredAccounts ==
    sortedAndFilteredAccountsOf(accounts, accountSearchTerm, accountSortConfig)

\* processedSelectedAccount: the selected account with its transactions filtered.
filterTransactions(transactions, term) ==
    IF trim(term) # <<>>
    THEN SelectSeq(transactions, LAMBDA t :
                        includes(toLowerCase(t.description), toLowerCase(term)))
    ELSE transactions

processedSelectedAccountOf(accs, selectedId, term) ==
    LET selected == firstOrNull(selectedAccountOf(accs, selectedId))
    IN  IF selected = <<>> THEN <<>>
        ELSE <<Account(selected[1].id, selected[1].name,
                       filterTransactions(selected[1].transactions, term))>>

processedSelectedAccount ==
    processedSelectedAccountOf(accounts, selectedAccountId, transactionSearchTerm)

(***************************************************************************)
(* The list views.                                                         *)
(***************************************************************************)
\* A page that starts one page too far.
paginatedAccountsFromNextPage(list, page, all) ==
    IF all THEN list
    ELSE slice(list, page * ACCOUNTS_PER_PAGE,
               page * ACCOUNTS_PER_PAGE + ACCOUNTS_PER_PAGE)

\* AccountsTable.paginatedAccounts.
paginatedAccountsOf(list, page, all) ==
    IF all THEN list
    ELSE slice(list, (page - 1) * ACCOUNTS_PER_PAGE,
               (page - 1) * ACCOUNTS_PER_PAGE + ACCOUNTS_PER_PAGE)

paginatedAccounts ==
    paginatedAccountsOf(sortedAndFilteredAccounts.list, accountsCurrentPage,
                        showAllAccounts)

\* AccountDetail: account?.transactions ?? [].
detailTransactions(account) == IF account = <<>> THEN <<>> ELSE account[1].transactions

\* AccountDetail.paginatedTransactions.
paginatedTransactionsOf(account, page, all) ==
    IF all THEN detailTransactions(account)
    ELSE slice(detailTransactions(account), (page - 1) * TRANSACTIONS_PER_PAGE,
               (page - 1) * TRANSACTIONS_PER_PAGE + TRANSACTIONS_PER_PAGE)

paginatedTransactions ==
    paginatedTransactionsOf(processedSelectedAccount, currentPage, showAll)

\* AccountDetail.totalTransactions and totalPages.
totalTransactionsOf(account) == Len(detailTransactions(account))

totalPagesOf(account) == ceilDiv(totalTransactionsOf(account), TRANSACTIONS_PER_PAGE)

totalPages == totalPagesOf(processedSelectedAccount)

(***************************************************************************)
(* AccountDetail's effects.  After a render React runs, in the order of    *)
(* their declaration, the effects whose dependencies changed since the     *)
(* previous render; the state they set is applied together (the last       *)
(* setCurrentPage wins) and the component renders again, until nothing     *)
(* changes.                                                                *)
(***************************************************************************)
\* What the three effects depend on, in one render.
detailDeps(accs, selectedId, term, page) ==
    LET account == processedSelectedAccountOf(accs, selectedId, term)
    IN  [accountId  |-> IF account = <<>> THEN NULL ELSE account[1].id,
         page       |-> page,
         totalPages |-> totalPagesOf(account),
         term       |-> term]

\* An AccountDetail without the clamp effect (as AccountsTable is).
clampEffectMissing(prev, cur, page) == page

\* if (currentPage > totalPages && totalPages > 0) setCurrentPage(totalPages)
clampEffect(prev, cur, page) ==
    IF (cur.page # prev.page \/ cur.totalPages # prev.totalPages)
       /\ cur.page > cur.totalPages /\ cur.totalPages > 0
    THEN cur.totalPages ELSE page

\* A search-term effect that leaves the page alone.
searchEffectKeepsPage(prev, cur, page) == page

\* useEffect(() => setCurrentPage(1), [transactionSearchTerm])
searchEffect(prev, cur, page) == IF cur.term # prev.term THEN 1 ELSE page

\* useEffect(() => { onSearchTransactions(''); setCurrentPage(1); }, [account?.id])
accountEffectPage(prev, cur, page) == IF cur.accountId # prev.accountId THEN 1 ELSE page

accountEffectTerm(prev, cur, term) == IF cur.accountId # prev.accountId THEN <<>> ELSE term

runEffects(prev, cur) ==
    [page |-> searchEffect(prev, cur,
                  clampEffect(prev, cur, accountEffectPage(prev, cur, cur.page))),
     term |-> accountEffectTerm(prev, cur, cur.term)]

RECURSIVE settle(_, _, _, _, _)
settle(accs, selectedId, prev, page, term) ==
    LET cur == detailDeps(accs, selectedId, term, page)
        new == runEffects(prev, cur)
    IN  IF new.page = page /\ new.term = term THEN new
        ELSE settle(accs, selectedId, cur, new.page, new.term)

(***************************************************************************)
(* Persistence.  A stored text is JSON text, garbage or the empty text;    *)
(* a key of localStorage holds no item (<<>>) or one text.                 *)
(***************************************************************************)
JSONstringify(value) == [kind |-> "json", value |-> value]

\* JSON.stringify of the accounts: every own property of every record.
jsonOfTransaction(t) ==
    [id |-> t.id, description |-> t.description, amount |-> t.amount,
     date |-> t.date, type |-> t.type]

jsonOfAccount(a) ==
    [id |-> a.id, name |-> a.name,
     transactions |-> [i \in 1..Len(a.transactions) |->
                          jsonOfTransaction(a.transactions[i])]]

jsonOfAccounts(accs) ==
    [t |-> "array", items |-> [i \in 1..Len(accs) |-> jsonOfAccount(accs[i])]]

\* useLocalStorage's setter: the new value is mirrored to the key as JSON text.
storeAccounts(storage, accs) ==
    [storage EXCEPT !.accounts = <<JSONstringify(jsonOfAccounts(accs))>>]

(***************************************************************************)
(* Rendering.  Every handler ends with a render of the new state: the      *)
(* sorted accounts are computed (a throw unmounts the whole tree, the App  *)
(* has no error boundary) and AccountDetail's effects run until they       *)
(* settle.  Commit gives the six variables the render reads and the        *)
(* effects write their new values.                                         *)
(***************************************************************************)
Commit(accs, selectedId, aTerm, sortConfig, tTerm, page) ==
    LET threw   == sortedAndFilteredAccountsOf(accs, aTerm, sortConfig).threw
        settled == settle(accs, selectedId,
                          detailDeps(accounts, selectedAccountId,
                                     transactionSearchTerm, currentPage),
                          page, tTerm)
    IN  /\ accounts' = accs
        /\ selectedAccountId' = selectedId
        /\ accountSearchTerm' = aTerm
        /\ accountSortConfig' = sortConfig
        /\ crashed' = threw
        /\ transactionSearchTerm' = IF threw THEN tTerm ELSE settled.term
        /\ currentPage' = IF threw THEN page ELSE settled.page

\* setAccounts(accs): the state, its mirror in localStorage, and the render.
setAccounts(accs, selectedId) ==
    /\ Commit(accs, selectedId, accountSearchTerm, accountSortConfig,
              transactionSearchTerm, currentPage)
    /\ localStorage' = storeAccounts(localStorage, accs)

unchangedApp ==
    UNCHANGED <<accounts, selectedAccountId, accountSearchTerm, accountSortConfig,
                transactionSearchTerm, currentPage, crashed>>

unchangedModal == UNCHANGED modalVars

\* A close that leaves the edit targets.
closeModalKeepsTargets ==
    /\ isModalOpen' = FALSE
    /\ modalContent' = "none"
    /\ UNCHANGED <<accountToEdit, transactionToEdit, transactionTypeForForm>>

\* handleCloseModal
closeModal ==
    /\ isModalOpen' = FALSE
    /\ accountToEdit' = <<>>
    /\ transactionToEdit' = <<>>
    /\ modalContent' = "none"
    /\ UNCHANGED transactionTypeForForm

(***************************************************************************)
(* Accounts: the handlers of the App and the form.                         *)
(***************************************************************************)
\* The "Nueva Cuenta" button: handleOpenModal('account').
handleOpenModalAccount ==
    /\ ~crashed
    /\ modalContent' = "account"
    /\ isModalOpen' = TRUE
    /\ UNCHANGED <<accountToEdit, transactionToEdit, transactionTypeForForm>>
    /\ unchangedApp
    /\ UNCHANGED <<showAllAccounts, accountsCurrentPage, showAll, ioVars, nextId>>
    /\ last' = [op |-> "handleOpenModal"]

handleEditAccount(account) ==
    /\ ~crashed
    /\ accountToEdit' = <<account>>
    /\ modalContent' = "account"
    /\ isModalOpen' = TRUE
    /\ UNCHANGED <<transactionToEdit, transactionTypeForForm>>
    /\ unchangedApp
    /\ UNCHANGED <<showAllAccounts, accountsCurrentPage, showAll, ioVars, nextId>>
    /\ last' = [op |-> "handleEditAccount", id |-> account.id]

handleCloseModal ==
    /\ ~crashed
    /\ isModalOpen
    /\ closeModal
    /\ unchangedApp
    /\ UNCHANGED <<showAllAccounts, accountsCurrentPage, showAll, ioVars, nextId>>
    /\ last' = [op |-> "handleCloseModal"]

handleAddAccount(name) ==
    /\ setAccounts(Append(accounts, Account(nextId, name, <<>>)), selectedAccountId)
    /\ nextId' = nextId + 1
    /\ closeModal

handleUpdateAccount(name) ==
    /\ setAccounts([i \in 1..Len(accounts) |->
                       IF accounts[i].id = accountToEdit[1].id
                       THEN [accounts[i] EXCEPT !.name = name]
                       ELSE accounts[i]],
                   selectedAccountId)
    /\ UNCHANGED nextId
    /\ closeModal

\* AccountForm.handleSubmit with the name typed into the form.
accountFormSubmit(name) ==
    /\ ~crashed
    /\ isModalOpen
    /\ modalContent = "account"
    /\ IF trim(name) = <<>>
       THEN /\ unchangedApp
            /\ unchangedModal
            /\ UNCHANGED <<localStorage, nextId>>
       ELSE IF accountToEdit # <<>>
            THEN handleUpdateAccount(name)
            ELSE handleAddAccount(name)
    /\ UNCHANGED <<showAllAccounts, accountsCurrentPage, showAll, download, reads,
                   fileInput, notice>>
    /\ last' = [op |-> "accountFormSubmit", name |-> name,
                edit |-> accountToEdit # <<>>]

\* A deletion that leaves the selection as it is.
selectionAfterDeleteKept(accountId) == selectedAccountId

\* if (selectedAccountId === accountId) setSelectedAccountId(null)
selectionAfterDelete(accountId) ==
    IF selectedAccountId = accountId THEN NULL ELSE selectedAccountId

\* A deletion of an account that does not wait for the answer.
handleDeleteAccountUnasked(accountId, confirmed) ==
    /\ ~crashed
    /\ setAccounts(SelectSeq(accounts, LAMBDA acc : acc.id # accountId),
                   selectionAfterDelete(accountId))
    /\ unchangedModal
    /\ UNCHANGED <<showAllAccounts, accountsCurrentPage, showAll, download, reads,
                   fileInput, notice, nextId>>
    /\ last' = [op |-> "handleDeleteAccount", id |-> accountId,
                confirmed |-> confirmed, selected |-> selectedAccountId]

handleDeleteAccount(accountId, confirmed) ==
    /\ ~crashed
    /\ IF confirmed
       THEN setAccounts(SelectSeq(accounts, LAMBDA acc : acc.id # accountId),
                        selectionAfterDelete(accountId))
       ELSE unchangedApp /\ UNCHANGED localStorage
    /\ unchangedModal
    /\ UNCHANGED <<showAllAccounts, accountsCurrentPage, showAll, download, reads,
                   fileInput, notice, nextId>>
    /\ last' = [op |-> "handleDeleteAccount", id |-> accountId,
                confirmed |-> confirmed, selected |-> selectedAccountId]

\* A row click: onSelectAccount = setSelectedAccountId.
setSelectedAccountId(accountId) ==
    /\ ~crashed
    /\ Commit(accounts, accountId, accountSearchTerm, accountSortConfig,
              transactionSearchTerm, currentPage)
    /\ unchangedModal
    /\ UNCHANGED <<showAllAccounts, accountsCurrentPage, showAll, ioVars, nextId>>
    /\ last' = [op |-> "setSelectedAccountId", id |-> accountId]

\* The accounts search input: setAccountSearchTerm(e.target.value).
setAccountSearchTerm(term) ==
    /\ ~crashed
    /\ term # accountSearchTerm
    /\ Commit(accounts, selectedAccountId, term, accountSortConfig,
              transactionSearchTerm, currentPage)
    /\ unchangedModal
    /\ UNCHANGED <<showAllAccounts, accountsCurrentPage, showAll, ioVars, nextId>>
    /\ last' = [op |-> "setAccountSearchTerm", term |-> term]

\* An updater that keeps a descending sort descending.
nextSortConfigStaysDescending(prevConfig, key) ==
    IF prevConfig # <<>> /\ prevConfig[1].key = key
    THEN <<[key |-> key, direction |-> "desc"]>>
    ELSE <<[key |-> key, direction |-> "asc"]>>

\* The updater of handleSortAccounts.
nextSortConfig(prevConfig, key) ==
    IF prevConfig # <<>> /\ prevConfig[1].key = key
       /\ prevConfig[1].direction = "asc"
    THEN <<[key |-> key, direction |-> "desc"]>>
    ELSE <<[key |-> key, direction |-> "asc"]>>

\* A sort request that also stores the accounts in the order it shows them.
handleSortAccountsStoresOrder(key) ==
    /\ ~crashed
    /\ Commit(sortedAndFilteredAccountsOf(
                  accounts, <<>>, nextSortConfig(accountSortConfig, "name")).list,
              selectedAccountId, accountSearchTerm,
              nextSortConfig(accountSortConfig, key),
              transactionSearchTerm, currentPage)
    /\ unchangedModal
    /\ UNCHANGED <<showAllAccounts, accountsCurrentPage, showAll, ioVars, nextId>>
    /\ last' = [op |-> "handleSortAccounts", key |-> key,
                from |-> accountSortConfig]

handleSortAccounts(key) ==
    /\ ~crashed
    /\ Commit(accounts, selectedAccountId, accountSearchTerm,
              nextSortConfig(accountSortConfig, key),
              transactionSearchTerm, currentPage)
    /\ unchangedModal
    /\ UNCHANGED <<showAllAccounts, accountsCurrentPage, showAll, ioVars, nextId>>
    /\ last' = [op |-> "handleSortAccounts", key |-> key,
                from |-> accountSortConfig]

\* The "Mostrar Todo" button of the accounts: setShowAllAccounts(!showAllAccounts).
toggleShowAllAccounts ==
    /\ ~crashed
    /\ showAllAccounts' = ~showAllAccounts
    /\ unchangedApp
    /\ unchangedModal
    /\ UNCHANGED <<accountsCurrentPage, showAll, ioVars, nextId>>
    /\ last' = [op |-> "setShowAllAccounts"]

\* AccountsTable's pagination controls are rendered when the list is paginated
\* and longer than a page; a disabled button does not fire.
accountsControlsShown ==
    ~showAllAccounts /\ Len(sortedAndFilteredAccounts.list) > ACCOUNTS_PER_PAGE

accountsPreviousPage ==
    /\ ~crashed
    /\ accountsControlsShown
    /\ accountsCurrentPage # 1
    /\ accountsCurrentPage' =
           IF accountsCurrentPage - 1 > 1 THEN accountsCurrentPage - 1 ELSE 1
    /\ unchangedApp
    /\ unchangedModal
    /\ UNCHANGED <<showAllAccounts, showAll, ioVars, nextId>>
    /\ last' = [op |-> "accountsPreviousPage"]

accountsNextPage ==
    /\ ~crashed
    /\ accountsControlsShown
    /\ ~(accountsCurrentPage * ACCOUNTS_PER_PAGE >= Len(sortedAndFilteredAccounts.list))
    /\ accountsCurrentPage' =
           LET pages == ceilDiv(Len(sortedAndFilteredAccounts.list), ACCOUNTS_PER_PAGE)
           IN  IF accountsCurrentPage + 1 < pages THEN accountsCurrentPage + 1 ELSE pages
    /\ unchangedApp
    /\ unchangedModal
    /\ UNCHANGED <<showAllAccounts, showAll, ioVars, nextId>>
    /\ last' = [op |-> "accountsNextPage"]

(***************************************************************************)
(* Transactions: the handlers of the App, the form and AccountDetail.      *)
(***************************************************************************)
\* The "Ingreso" and "Gasto" buttons of AccountDetail (rendered for an account).
handleAddTransactionClick(type) ==
    /\ ~crashed
    /\ processedSelectedAccount # <<>>
    /\ transactionTypeForForm' = type
    /\ transactionToEdit' = <<>>
    /\ modalContent' = "transaction"
    /\ isModalOpen' = TRUE
    /\ UNCHANGED accountToEdit
    /\ unchangedApp
    /\ UNCHANGED <<showAllAccounts, accountsCurrentPage, showAll, ioVars, nextId>>
    /\ last' = [op |-> "handleAddTransactionClick", type |-> type]

handleEditTransaction(transaction) ==
    /\ ~crashed
    /\ transactionToEdit' = <<transaction>>
    /\ transactionTypeForForm' = transaction.type
    /\ modalContent' = "transaction"
    /\ isModalOpen' = TRUE
    /\ UNCHANGED accountToEdit
    /\ unchangedApp
    /\ UNCHANGED <<showAllAccounts, accountsCurrentPage, showAll, ioVars, nextId>>
    /\ last' = [op |-> "handleEditTransaction", id |-> transaction.id]

\* parseFloat of the texts the amount input is given in the model: null is NaN.
parseFloat(text) ==
    CASE text = "1"  -> <<1>>
      [] text = "8"  -> <<8>>
      [] text = "0"  -> <<0>>
      [] text = "-1" -> <<-1>>
      [] OTHER       -> <<>>

\* A validation that does not trim the description.
validateUntrimmed(description, amount) ==
    /\ description # <<>>
    /\ ~(parseFloat(amount) = <<>> \/ parseFloat(amount)[1] <= 0)

\* TransactionForm.validate
validate(description, amount) ==
    /\ trim(description) # <<>>
    /\ ~(parseFloat(amount) = <<>> \/ parseFloat(amount)[1] <= 0)

\* An edit that also stamps the transaction with the time of the edit.
updatedTransactionsStampsDate(acc, data, now) ==
    IF transactionToEdit # <<>>
    THEN [i \in 1..Len(acc.transactions) |->
             IF acc.transactions[i].id = transactionToEdit[1].id
             THEN Transaction(transactionToEdit[1].id, data.description,
                              data.amount, now, data.type)
             ELSE acc.transactions[i]]
    ELSE Append(acc.transactions,
                Transaction(nextId, data.description, data.amount, now, data.type))

\* The updater of handleAddOrUpdateTransaction on one account.
updatedTransactions(acc, data, now) ==
    IF transactionToEdit # <<>>
    THEN [i \in 1..Len(acc.transactions) |->
             IF acc.transactions[i].id = transactionToEdit[1].id
             THEN [transactionToEdit[1] EXCEPT !.description = data.description,
                                               !.amount = data.amount,
                                               !.type = data.type]
             ELSE acc.transactions[i]]
    ELSE Append(acc.transactions,
                Transaction(nextId, data.description, data.amount, now, data.type))

\* An updater that gives the transaction to every account.
accountsWithTransactionInAll(prevAccounts, data, now) ==
    [i \in 1..Len(prevAccounts) |->
        [prevAccounts[i] EXCEPT !.transactions =
            updatedTransactions(prevAccounts[i], data, now)]]

\* The updater of handleAddOrUpdateTransaction: prevAccounts.map(...).
accountsWithTransaction(prevAccounts, data, now) ==
    [i \in 1..Len(prevAccounts) |->
        IF prevAccounts[i].id = selectedAccountId
        THEN [prevAccounts[i] EXCEPT !.transactions =
                  updatedTransactions(prevAccounts[i], data, now)]
        ELSE prevAccounts[i]]

handleAddOrUpdateTransaction(data, now) ==
    IF selectedAccountId = NULL
    THEN /\ unchangedApp
         /\ unchangedModal
         /\ UNCHANGED <<localStorage, nextId>>
    ELSE /\ setAccounts(accountsWithTransaction(accounts, data, now),
                        selectedAccountId)
         /\ nextId' = IF transactionToEdit = <<>>
                         /\ \E i \in 1..Len(accounts) : accounts[i].id = selectedAccountId
                      THEN nextId + 1 ELSE nextId
         /\ closeModal

\* TransactionForm.handleSubmit with the fields of the form; now is the clock.
transactionFormSubmit(description, amount, type, now) ==
    /\ ~crashed
    /\ isModalOpen
    /\ modalContent = "transaction"
    /\ IF ~validate(description, amount)
       THEN /\ unchangedApp
            /\ unchangedModal
            /\ UNCHANGED <<localStorage, nextId>>
       ELSE handleAddOrUpdateTransaction(
                [description |-> description, amount |-> parseFloat(amount)[1],
                 type |-> type], now)
    /\ UNCHANGED <<showAllAccounts, accountsCurrentPage, showAll, download, reads,
                   fileInput, notice>>
    /\ last' = [op |-> "transactionFormSubmit", description |-> description,
                amount |-> amount, type |-> type,
                edit |-> transactionToEdit # <<>>]

handleDeleteTransaction(accountId, transactionId, confirmed) ==
    /\ ~crashed
    /\ IF confirmed
       THEN setAccounts([i \in 1..Len(accounts) |->
                            IF accounts[i].id = accountId
                            THEN [accounts[i] EXCEPT !.transactions =
                                      SelectSeq(accounts[i].transactions,
                                                LAMBDA t : t.id # transactionId)]
                            ELSE accounts[i]],
                        selectedAccountId)
       ELSE unchangedApp /\ UNCHANGED localStorage
    /\ unchangedModal
    /\ UNCHANGED <<showAllAccounts, accountsCurrentPage, showAll, download, reads,
                   fileInput, notice, nextId>>
    /\ last' = [op |-> "handleDeleteTransaction", accountId |-> accountId,
                id |-> transactionId, confirmed |-> confirmed, page |-> currentPage]

\* The transactions search input: onSearchTransactions = setTransactionSearchTerm.
onSearchTransactions(term) ==
    /\ ~crashed
    /\ processedSelectedAccount # <<>>
    /\ term # transactionSearchTerm
    /\ Commit(accounts, selectedAccountId, accountSearchTerm, accountSortConfig,
              term, currentPage)
    /\ unchangedModal
    /\ UNCHANGED <<showAllAccounts, accountsCurrentPage, showAll, ioVars, nextId>>
    /\ last' = [op |-> "onSearchTransactions", term |-> term,
                page |-> currentPage, matches |-> totalTransactionsOf(processedSelectedAccount)]

\* The "Mostrar Todo" button of AccountDetail: setShowAll(!showAll).
toggleShowAll ==
    /\ ~crashed
    /\ processedSelectedAccount # <<>>
    /\ showAll' = ~showAll
    /\ unchangedApp
    /\ unchangedModal
    /\ UNCHANGED <<showAllAccounts, accountsCurrentPage, ioVars, nextId>>
    /\ last' = [op |-> "setShowAll"]

\* AccountDetail's pagination controls.
detailControlsShown ==
    /\ processedSelectedAccount # <<>>
    /\ totalTransactionsOf(processedSelectedAccount) # 0
    /\ ~showAll
    /\ totalTransactionsOf(processedSelectedAccount) > TRANSACTIONS_PER_PAGE

previousPage ==
    /\ ~crashed
    /\ detailControlsShown
    /\ currentPage # 1
    /\ Commit(accounts, selectedAccountId, accountSearchTerm, accountSortConfig,
              transactionSearchTerm,
              IF currentPage - 1 > 1 THEN currentPage - 1 ELSE 1)
    /\ unchangedModal
    /\ UNCHANGED <<showAllAccounts, accountsCurrentPage, showAll, ioVars, nextId>>
    /\ last' = [op |-> "previousPage"]

nextPage ==
    /\ ~crashed
    /\ detailControlsShown
    /\ ~(currentPage >= totalPages)
    /\ Commit(accounts, selectedAccountId, accountSearchTerm, accountSortConfig,
              transactionSearchTerm,
              IF currentPage + 1 < totalPages THEN currentPage + 1 ELSE totalPages)
    /\ unchangedModal
    /\ UNCHANGED <<showAllAccounts, accountsCurrentPage, showAll, ioVars, nextId>>
    /\ last' = [op |-> "nextPage"]

(***************************************************************************)
(* Drag and drop.                                                          *)
(***************************************************************************)
\* An updater that takes a missing id for the first element.
reorderedAccountsFirstWhenMissing(items, activeId, overId) ==
    LET oldIndex == IF findIndex(items, activeId) = -1 THEN 0
                    ELSE findIndex(items, activeId)
        newIndex == IF findIndex(items, overId) = -1 THEN 0
                    ELSE findIndex(items, overId)
    IN  IF items = <<>> THEN items ELSE arrayMove(items, oldIndex, newIndex)

\* The updater of handleReorderAccounts.
reorderedAccounts(items, activeId, overId) ==
    LET oldIndex == findIndex(items, activeId)
        newIndex == findIndex(items, overId)
    IN  IF oldIndex = -1 \/ newIndex = -1 THEN items
        ELSE arrayMove(items, oldIndex, newIndex)

handleReorderAccounts(activeId, overId) ==
    /\ ~crashed
    /\ IF activeId = overId
       THEN unchangedApp /\ UNCHANGED localStorage
       ELSE setAccounts(reorderedAccounts(accounts, activeId, overId),
                        selectedAccountId)
    /\ unchangedModal
    /\ UNCHANGED <<showAllAccounts, accountsCurrentPage, showAll, download, reads,
                   fileInput, notice, nextId>>
    /\ last' = [op |-> "handleReorderAccounts", activeId |-> activeId,
                overId |-> overId]

\* The updater of handleReorderTransactions.
reorderedTransactions(prevAccounts, accountId, activeId, overId) ==
    LET accountIndex == findIndex(prevAccounts, accountId)
    IN  IF accountIndex = -1 THEN prevAccounts
        ELSE LET account  == prevAccounts[accountIndex + 1]
                 oldIndex == findIndex(account.transactions, activeId)
                 newIndex == findIndex(account.transactions, overId)
             IN  IF oldIndex = -1 \/ newIndex = -1 THEN prevAccounts
                 ELSE [prevAccounts EXCEPT ![accountIndex + 1].transactions =
                          arrayMove(account.transactions, oldIndex, newIndex)]

handleReorderTransactions(accountId, activeId, overId) ==
    /\ ~crashed
    /\ IF activeId = overId
       THEN unchangedApp /\ UNCHANGED localStorage
       ELSE setAccounts(reorderedTransactions(accounts, accountId, activeId, overId),
                        selectedAccountId)
    /\ unchangedModal
    /\ UNCHANGED <<showAllAccounts, accountsCurrentPage, showAll, download, reads,
                   fileInput, notice, nextId>>
    /\ last' = [op |-> "handleReorderTransactions", accountId |-> accountId,
                activeId |-> activeId, overId |-> overId]

(***************************************************************************)
(* Export and import of the backup file.                                   *)
(***************************************************************************)
jsonNull == [t |-> "null"]

\* A field an object does not have.
jsonUndefined == [t |-> "undefined"]

jsonOfId(id) == IF id = NULL THEN jsonNull ELSE [t |-> "string", id |-> id]

\* JSON.parse of a text that is JSON.
JSONparse(text) == text.value

\* localStorage.getItem(key) || fallback
getItemOr(storage, key, fallback) ==
    IF storage[key] = <<>> THEN fallback ELSE storage[key][1]

\* The document handleExportData builds from the two keys of localStorage.
dataToExport(storage) ==
    [t |-> "object",
     accounts |-> JSONparse(getItemOr(storage, "accounts",
                                      JSONstringify([t |-> "array", items |-> <<>>]))),
     selectedAccountId |-> JSONparse(getItemOr(storage, "selectedAccountId",
                                               JSONstringify(jsonNull)))]

handleExportData ==
    /\ ~crashed
    /\ download' = <<[text |-> JSONstringify(dataToExport(localStorage)),
                      exported |-> accounts]>>
    /\ unchangedApp
    /\ unchangedModal
    /\ UNCHANGED <<showAllAccounts, accountsCurrentPage, showAll, localStorage, reads,
                   fileInput, notice, nextId>>
    /\ last' = [op |-> "handleExportData"]

\* handleImportData: the file picker changed; the read of the file starts.
handleImportData(file) ==
    /\ ~crashed
    /\ reads' = Append(reads, file)
    /\ fileInput' = "file"
    /\ unchangedApp
    /\ unchangedModal
    /\ UNCHANGED <<showAllAccounts, accountsCurrentPage, showAll, localStorage,
                   download, notice, nextId>>
    /\ last' = [op |-> "handleImportData"]

\* A check that takes any accounts field for a collection.
hasAccountsField(importedData) ==
    /\ importedData.t = "object"
    /\ importedData.accounts.t # "undefined"

\* importedData && Array.isArray(importedData.accounts)
hasAccountsArray(importedData) ==
    /\ importedData.t = "object"
    /\ importedData.accounts.t = "array"

\* importedData.selectedAccountId || null
selectedIdOrNull(importedData) ==
    IF importedData.selectedAccountId.t = "string"
    THEN importedData.selectedAccountId
    ELSE jsonNull

\* An import that appends the imported accounts to the stored ones.
importedStorageMerges(importedData) ==
    [accounts |-> <<JSONstringify(
         [t |-> "array",
          items |-> JSONparse(getItemOr(localStorage, "accounts",
                        JSONstringify([t |-> "array", items |-> <<>>]))).items
                    \o importedData.accounts.items])>>,
     selectedAccountId |-> <<JSONstringify(selectedIdOrNull(importedData))>>]

\* An import that stores the selected id and leaves the stored accounts.
importedStorageKeepsAccounts(importedData) ==
    [accounts |-> localStorage.accounts,
     selectedAccountId |-> <<JSONstringify(selectedIdOrNull(importedData))>>]

\* An import that stores nothing while another read is pending.
importedStorageWhenAlone(importedData) ==
    IF Len(reads) > 1 THEN localStorage
    ELSE [accounts |-> <<JSONstringify(importedData.accounts)>>,
          selectedAccountId |-> <<JSONstringify(selectedIdOrNull(importedData))>>]

\* The two setItem calls of a confirmed import.
importedStorage(importedData) ==
    [accounts |-> <<JSONstringify(importedData.accounts)>>,
     selectedAccountId |-> <<JSONstringify(selectedIdOrNull(importedData))>>]

\* JSON.parse of the stored accounts gives the records back.
transactionOfJson(j) == Transaction(j.id, j.description, j.amount, j.date, j.type)

accountOfJson(j) ==
    Account(j.id, j.name,
            [i \in 1..Len(j.transactions) |-> transactionOfJson(j.transactions[i])])

\* useLocalStorage's first read: the parsed item, or the default [].
loadAccounts(storage) ==
    IF storage.accounts = <<>> THEN <<>>
    ELSE IF JSONparse(storage.accounts[1]).t # "array" THEN <<>>
    ELSE LET items == JSONparse(storage.accounts[1]).items
         IN  [i \in 1..Len(items) |-> accountOfJson(items[i])]

\* window.location.reload(): the App mounts again; only localStorage survives.
mountFrom(storage) ==
    /\ accounts' = loadAccounts(storage)
    /\ selectedAccountId' = NULL
    /\ accountSearchTerm' = <<>>
    /\ accountSortConfig' = <<>>
    /\ transactionSearchTerm' = <<>>
    /\ isModalOpen' = FALSE
    /\ modalContent' = "none"
    /\ accountToEdit' = <<>>
    /\ transactionToEdit' = <<>>
    /\ transactionTypeForForm' = EXPENSE
    /\ showAllAccounts' = FALSE
    /\ accountsCurrentPage' = 1
    /\ currentPage' = 1
    /\ showAll' = FALSE
    /\ crashed' = FALSE
    /\ reads' = <<>>
    /\ fileInput' = ""

\* The alert reader.onload shows for a result, "none" when it shows none.
onloadNotice(result, confirmed) ==
    IF result.kind # "json" THEN "error"
    ELSE IF ~hasAccountsArray(JSONparse(result)) THEN "incorrect format"
    ELSE IF ~confirmed THEN "none"
    ELSE "imported"

\* reader.onload for the i-th pending read (every FileReader is on its own:
\* the reads complete in any order); confirmed is the answer the user gives to
\* window.confirm when it is asked.
fileReaderOnloadOf(i, confirmed) ==
    /\ i \in 1..Len(reads)
    /\ LET result == reads[i]
       IN  IF result.kind # "json"
           THEN \* an empty result or a SyntaxError of JSON.parse: the catch block
                /\ notice' = "error"
                /\ fileInput' = ""
                /\ reads' = removeAt(reads, i - 1)
                /\ unchangedApp
                /\ unchangedModal
                /\ UNCHANGED <<showAllAccounts, accountsCurrentPage, showAll,
                               localStorage>>
           ELSE IF ~hasAccountsArray(JSONparse(result))
           THEN /\ notice' = "incorrect format"
                /\ fileInput' = ""
                /\ reads' = removeAt(reads, i - 1)
                /\ unchangedApp
                /\ unchangedModal
                /\ UNCHANGED <<showAllAccounts, accountsCurrentPage, showAll,
                               localStorage>>
           ELSE IF ~confirmed
           THEN /\ fileInput' = ""
                /\ reads' = removeAt(reads, i - 1)
                /\ unchangedApp
                /\ unchangedModal
                /\ UNCHANGED <<showAllAccounts, accountsCurrentPage, showAll,
                               localStorage, notice>>
           ELSE /\ localStorage' = importedStorage(JSONparse(result))
                /\ notice' = "imported"
                /\ mountFrom(importedStorage(JSONparse(result)))
    /\ UNCHANGED <<download, nextId>>
    /\ last' = [op |-> "fileReaderOnload", confirmed |-> confirmed,
                file |-> reads[i], replaced |-> accounts' # accounts,
                asked |-> (reads[i].kind = "json"
                           /\ hasAccountsArray(JSONparse(reads[i]))),
                notice |-> onloadNotice(reads[i], confirmed),
                pending |-> Len(reads), index |-> i]

\* reader.onload for the oldest pending read.
fileReaderOnload(confirmed) == fileReaderOnloadOf(1, confirmed)

\* The read fails: the reader has no onerror handler, nothing runs.
fileReaderError ==
    /\ reads # <<>>
    /\ reads' = Tail(reads)
    /\ unchangedApp
    /\ unchangedModal
    /\ UNCHANGED <<showAllAccounts, accountsCurrentPage, showAll, localStorage,
                   download, fileInput, notice, nextId>>
    /\ last' = [op |-> "fileReaderError", notice |-> "none"]

\* The user reloads the page.
reload ==
    /\ mountFrom(localStorage)
    /\ UNCHANGED <<localStorage, download, notice, nextId>>
    /\ last' = [op |-> "reload"]

(***************************************************************************)
(* The first run: nothing is stored.                                       *)
(***************************************************************************)
emptyStorage == [accounts |-> <<>>, selectedAccountId |-> <<>>]

\* The App mounted on a store that holds the accounts accs (ids 1..used).
InitFrom(storage, used) ==
    /\ accounts = loadAccounts(storage)
    /\ selectedAccountId = NULL
    /\ accountSearchTerm = <<>>
    /\ accountSortConfig = <<>>
    /\ transactionSearchTerm = <<>>
    /\ isModalOpen = FALSE
    /\ modalContent = "none"
    /\ accountToEdit = <<>>
    /\ transactionToEdit = <<>>
    /\ transactionTypeForForm = EXPENSE
    /\ showAllAccounts = FALSE
    /\ accountsCurrentPage = 1
    /\ currentPage = 1
    /\ showAll = FALSE
    /\ localStorage = storage
    /\ download = <<>>
    /\ reads = <<>>
    /\ fileInput = ""
    /\ notice = "none"
    /\ crashed = FALSE
    /\ nextId = used + 1
    /\ last = [op |-> "mount"]

Init == InitFrom(emptyStorage, 0)

(***************************************************************************)
(* Inputs and caps shared by the specifications below.  Each specification *)
(* is the App mounted on some stored collection, with the handlers its     *)
(* claims are about.                                                       *)
(***************************************************************************)
rowsOf(list) == {list[i] : i \in 1..Len(list)}

transactionsOfSelected ==
    IF selectedAccount = <<>> THEN <<>> ELSE selectedAccount[1].transactions

storageOf(accs) == storeAccounts([accounts |-> <<>>, selectedAccountId |-> <<>>], accs)

(***************************************************************************)
(* SpecLedger: one account; its transactions are added and dragged.        *)
(***************************************************************************)
InitLedger == InitFrom(storageOf(<<Account(1, <<"a">>, <<>>)>>), 1)

NextLedger ==
    \/ \E account \in rowsOf(paginatedAccounts) : setSelectedAccountId(account.id)
    \/ \E type \in TransactionTypes : handleAddTransactionClick(type)
    \/ \E amount \in {"1", "8"}, type \in TransactionTypes :
          /\ Len(transactionsOfSelected) < MaxLedger
          /\ transactionFormSubmit(<<"a">>, amount, type, 1)
    \/ \E active \in rowsOf(paginatedTransactions),
          over \in rowsOf(paginatedTransactions) :
          /\ active.id # over.id
          /\ handleReorderTransactions(processedSelectedAccount[1].id,
                                       active.id, over.id)

SpecLedger == InitLedger /\ [][NextLedger]_vars

\* The transactions of an account in another order.
permuted(account, p) ==
    [account EXCEPT !.transactions =
        [i \in 1..Len(account.transactions) |-> account.transactions[p[i]]]]

\* The amounts of the first k transactions that have the type, added up one
\* after the other in the stored order.
RECURSIVE sumOfType(_, _, _)
sumOfType(ts, type, k) ==
    IF k = 0 THEN 0
    ELSE IF ts[k].type = type
         THEN numberAdd(sumOfType(ts, type, k - 1), ts[k].amount)
         ELSE sumOfType(ts, type, k - 1)

\* C1: for every account (one with no transactions included) the summary's
\* income is the sum of the amounts of its INCOME transactions, its expense the
\* sum of the amounts of its EXPENSE transactions, its balance income - expense,
\* and the summary is the same for every permutation of the account's
\* transactions.
C1_SummaryIsOrderIndependentSum ==
    \A i \in 1..Len(accounts) :
        LET account == accounts[i]
            n       == Len(account.transactions)
            summary == calculateAccountSummary(account)
        IN  /\ summary.income = sumOfType(account.transactions, INCOME, n)
            /\ summary.expense = sumOfType(account.transactions, EXPENSE, n)
            /\ summary.balance = numberSub(summary.income, summary.expense)
            /\ n = 0 => summary = [income |-> 0, expense |-> 0, balance |-> 0]
            /\ calculateSummary(account) = summary
            /\ \A p \in Permutations(1..n) :
                   calculateAccountSummary(permuted(account, p)) = summary

(***************************************************************************)
(* SpecReorder: a stored collection of ReorderSize accounts, the first one *)
(* with ReorderSize transactions and the others with one each; rows are    *)
(* dragged.  The handlers are given every id, those of no row included.    *)
(***************************************************************************)
ReorderSize == 3

reorderCollection ==
    [a \in 1..ReorderSize |->
        Account(a, <<"a">>,
                IF a = 1
                THEN [k \in 1..ReorderSize |->
                         Transaction(ReorderSize + k, <<"a">>, 1, 1, INCOME)]
                ELSE <<Transaction(2 * ReorderSize + a, <<"b">>, 1, 1, EXPENSE)>>)]

InitReorder == InitFrom(storageOf(reorderCollection), 3 * ReorderSize + 1)

NextReorder ==
    \/ \E activeId \in 1..(ReorderSize + 1), overId \in 1..(ReorderSize + 1) :
          handleReorderAccounts(activeId, overId)
    \/ \E accountId \in {1, 2, ReorderSize + 1},
          activeId \in (ReorderSize + 1)..(2 * ReorderSize + 2),
          overId \in (ReorderSize + 1)..(2 * ReorderSize + 2) :
          \* for the accounts that hold none of these ids, two ids are enough
          /\ accountId = 1
                \/ (activeId <= ReorderSize + 2 /\ overId <= ReorderSize + 2)
          /\ handleReorderTransactions(accountId, activeId, overId)

SpecReorder == InitReorder /\ [][NextReorder]_vars

has(list, id) == \E i \in 1..Len(list) : list[i].id = id

accountWithId(accs, id) == accs[findIndex(accs, id) + 1]

\* new is old with the element m relocated to the place t had; nothing else
\* changes its relative order, nothing is lost or doubled.
relocated(old, new, m, t) ==
    /\ Len(new) = Len(old)
    /\ \A i \in 1..Len(old) :
           Cardinality({j \in 1..Len(new) : new[j] = old[i]}) = 1
    /\ findIndex(new, m) = findIndex(old, t)
    /\ \A i \in 1..Len(old), j \in 1..Len(old) :
           (i < j /\ old[i].id # m /\ old[j].id # m)
               => findIndex(new, old[i].id) < findIndex(new, old[j].id)

\* C2: a reorder request (movedId, targetId) with movedId # targetId and both
\* ids in the collection (the accounts, or the transactions of one account)
\* gives a permutation of the collection in which movedId is at the index
\* targetId had and all other elements keep their relative order.
C2_ReorderRelocatesMoved ==
    [][ /\ ( /\ last'.op = "handleReorderAccounts"
             /\ last'.activeId # last'.overId
             /\ has(accounts, last'.activeId)
             /\ has(accounts, last'.overId) )
           => relocated(accounts, accounts', last'.activeId, last'.overId)
        /\ ( /\ last'.op = "handleReorderTransactions"
             /\ last'.activeId # last'.overId
             /\ has(accounts, last'.accountId)
             /\ has(accountWithId(accounts, last'.accountId).transactions,
                    last'.activeId)
             /\ has(accountWithId(accounts, last'.accountId).transactions,
                    last'.overId) )
           => /\ ids(accounts') = ids(accounts)
              /\ \A i \in 1..Len(accounts) :
                     IF accounts[i].id = last'.accountId
                     THEN /\ accounts'[i].name = accounts[i].name
                          /\ relocated(accounts[i].transactions,
                                       accounts'[i].transactions,
                                       last'.activeId, last'.overId)
                     ELSE accounts'[i] = accounts[i]
      ]_vars

\* A transaction of the first account was dragged down over one that was not
\* its neighbour and is now where that one was (which moved up by one), in a
\* collection whose accounts had been dragged too.
C2_Witness ==
    /\ last.op = "handleReorderTransactions"
    /\ last.accountId = 1
    /\ has(accounts, 1)
    /\ has(accountWithId(accounts, 1).transactions, last.activeId)
    /\ has(accountWithId(accounts, 1).transactions, last.overId)
    /\ findIndex(accountWithId(accounts, 1).transactions, last.activeId) = 2
    /\ findIndex(accountWithId(accounts, 1).transactions, last.overId) = 1
    /\ ids(accounts) # [i \in 1..Len(accounts) |-> i]

\* C3: a reorder request whose movedId equals targetId, or one of whose ids is
\* not in the collection (for transactions: whose account id is not in the
\* accounts), leaves the accounts collection unchanged.
C3_ReorderNoOp ==
    [][ /\ ( /\ last'.op = "handleReorderAccounts"
             /\ \/ last'.activeId = last'.overId
                \/ ~has(accounts, last'.activeId)
                \/ ~has(accounts, last'.overId) )
           => accounts' = accounts
        /\ ( /\ last'.op = "handleReorderTransactions"
             /\ \/ last'.activeId = last'.overId
                \/ ~has(accounts, last'.accountId)
                \/ ~has(accountWithId(accounts, last'.accountId).transactions,
                        last'.activeId)
                \/ ~has(accountWithId(accounts, last'.accountId).transactions,
                        last'.overId) )
           => accounts' = accounts
      ]_vars

\* An account was dragged over an id that no account has, after the order of
\* the accounts had been changed.
C3_Witness ==
    /\ last.op = "handleReorderAccounts"
    /\ has(accounts, last.activeId)
    /\ ~has(accounts, last.overId)
    /\ ids(accounts) # [i \in 1..Len(accounts) |-> i]

(***************************************************************************)
(* SpecSort: three stored accounts with different summaries; the accounts  *)
(* are searched and sorted.  After a render that threw only a reload of    *)
(* the page brings the App back.                                           *)
(***************************************************************************)
sortCollection ==
    << Account(1, <<"b">>, <<Transaction(4, <<"a">>, 8, 1, INCOME)>>),
       Account(2, <<"A">>, <<Transaction(5, <<"a">>, 1, 1, EXPENSE)>>),
       Account(3, <<"a">>, <<>>) >>

InitSort == InitFrom(storageOf(sortCollection), 5)

NextSort ==
    \/ \E key \in {"name", "balance", "income", "expense"} : handleSortAccounts(key)
    \/ \E term \in {<<>>, <<"a">>, <<"B">>} : setAccountSearchTerm(term)
    \/ \E account \in rowsOf(paginatedAccounts) : setSelectedAccountId(account.id)
    \/ toggleShowAllAccounts
    \/ reload

SpecSort == InitSort /\ [][NextSort]_vars

isPermutationOf(new, old) ==
    /\ Len(new) = Len(old)
    /\ \A i \in 1..Len(old) :
           Cardinality({j \in 1..Len(new) : new[j] = old[i]})
               = Cardinality({j \in 1..Len(old) : old[j] = old[i]})

\* C4: when the sort key is balance, income or expense, the accounts the table
\* is given are the filtered accounts ordered by that value of their summaries,
\* ascending or descending as configured.
C4_NumericSortOrders ==
    (accountSortConfig # <<>> /\ accountSortConfig[1].key # "name") =>
        LET key  == accountSortConfig[1].key
            list == sortedAndFilteredAccounts.list
        IN  /\ ~crashed
            /\ isPermutationOf(list, filterAccounts(accounts, accountSearchTerm))
            /\ \A i \in 1..Len(list), j \in 1..Len(list) :
                   i < j =>
                       IF accountSortConfig[1].direction = "asc"
                       THEN calculateAccountSummary(list[i])[key]
                                <= calculateAccountSummary(list[j])[key]
                       ELSE calculateAccountSummary(list[i])[key]
                                >= calculateAccountSummary(list[j])[key]

\* C23: a sort requested on the active key flips its direction, asc to desc and
\* desc to asc; a sort requested on another key, or with no sort active, sets
\* that key with direction asc.
C23_SortRequestSetsConfig ==
    [][last'.op = "handleSortAccounts"
       => /\ Len(accountSortConfig') = 1
          /\ accountSortConfig'[1].key = last'.key
          /\ accountSortConfig'[1].direction =
                 IF accountSortConfig = <<>> THEN "asc"
                 ELSE IF accountSortConfig[1].key # last'.key THEN "asc"
                 ELSE IF accountSortConfig[1].direction = "asc" THEN "desc"
                 ELSE "asc"]_vars

\* A sort on the active key, which was descending, made it ascending.
C23_Witness ==
    /\ last.op = "handleSortAccounts"
    /\ last.from = <<[key |-> last.key, direction |-> "desc"]>>
    /\ accountSortConfig = <<[key |-> last.key, direction |-> "asc"]>>
    /\ ~crashed

(***************************************************************************)
(* SpecAccountsPaging: MaxListed stored accounts, named "a" and "b" in     *)
(* turn; they are deleted, searched and paged.                             *)
(***************************************************************************)
listedAccounts ==
    [a \in 1..MaxListed |-> Account(a, IF a % 2 = 1 THEN <<"a">> ELSE <<"b">>, <<>>)]

InitAccountsPaging == InitFrom(storageOf(listedAccounts), MaxListed)

NextAccountsPaging ==
    \/ \E account \in rowsOf(paginatedAccounts), confirmed \in BOOLEAN :
          handleDeleteAccount(account.id, confirmed)
    \/ \E term \in {<<>>, <<"a">>, <<"B">>} : setAccountSearchTerm(term)
    \/ toggleShowAllAccounts
    \/ accountsPreviousPage
    \/ accountsNextPage

SpecAccountsPaging == InitAccountsPaging /\ [][NextAccountsPaging]_vars

pageCount(n, size) == IF ceilDiv(n, size) > 1 THEN ceilDiv(n, size) ELSE 1

\* C5: in the accounts view the current page is at least 1 and at most
\* max(1, ceil(N/5)), N the length of the filtered and sorted accounts, after any
\* deletions, filter changes, page clicks and show-all toggles.
C5_AccountsPageInRange ==
    /\ accountsCurrentPage >= 1
    /\ accountsCurrentPage
           <= pageCount(Len(sortedAndFilteredAccounts.list), ACCOUNTS_PER_PAGE)

\* C7: changing the accounts filter query resets the accounts page to 1.
C7_AccountsFilterResetsPage ==
    last.op = "setAccountSearchTerm" => accountsCurrentPage = 1

(***************************************************************************)
(* SpecDetailPaging: a stored account of MaxListed transactions described  *)
(* "a" and "ab" in turn, and a second account of one transaction; the      *)
(* transactions of the selected account are added, deleted, searched and   *)
(* paged.                                                                  *)
(***************************************************************************)
MaxAdded == 1

listedTransactions ==
    [t \in 1..MaxListed |->
        Transaction(2 + t, IF t % 2 = 1 THEN <<"a">> ELSE <<"a", "b">>, 1, 1, EXPENSE)]

detailCollection ==
    <<Account(1, <<"a">>, listedTransactions),
      Account(2, <<"b">>, <<Transaction(3 + MaxListed, <<"b">>, 1, 1, INCOME)>>)>>

InitDetailPaging == InitFrom(storageOf(detailCollection), 3 + MaxListed)

NextDetailPaging ==
    \/ \E account \in rowsOf(paginatedAccounts) : setSelectedAccountId(account.id)
    \/ \E term \in {<<>>, <<"a">>, <<"b", "b">>} : onSearchTransactions(term)
    \/ \E transaction \in rowsOf(paginatedTransactions), confirmed \in BOOLEAN :
          handleDeleteTransaction(processedSelectedAccount[1].id, transaction.id,
                                  confirmed)
    \/ /\ nextId <= 3 + MaxListed + MaxAdded
       /\ handleAddTransactionClick(INCOME)
    \/ /\ nextId <= 3 + MaxListed + MaxAdded
       /\ transactionFormSubmit(<<"a">>, "1", transactionTypeForForm, 1)
    \/ toggleShowAll
    \/ previousPage
    \/ nextPage

SpecDetailPaging == InitDetailPaging /\ [][NextDetailPaging]_vars

\* C6: in the transactions view of the selected account, after the effects have
\* settled, the current page is at least 1 and at most max(1, ceil(N/5)), N the
\* length of the filtered transactions, after any additions, deletions, filter
\* changes, page clicks and show-all toggles.
C6_TransactionsPageInRange ==
    /\ currentPage >= 1
    /\ currentPage <= pageCount(totalTransactionsOf(processedSelectedAccount),
                                TRANSACTIONS_PER_PAGE)

\* A transaction is deleted on page 2 and leaves one page: the page is 1.
C6_Witness ==
    /\ last.op = "handleDeleteTransaction"
    /\ last.confirmed
    /\ last.page = 2
    /\ totalTransactionsOf(processedSelectedAccount) = TRANSACTIONS_PER_PAGE
    /\ currentPage = 1

\* C8: changing the transaction filter query resets the page to 1 and shows the
\* first page of the newly filtered transactions; after a cleared filter that is
\* the first page of all the transactions of the account, whatever the page
\* and the matches before.
C8_TransactionFilterResetsPage ==
    last.op = "onSearchTransactions" =>
        /\ transactionSearchTerm = last.term
        /\ currentPage = 1
        /\ ~showAll =>
               paginatedTransactions =
                   slice(filterTransactions(transactionsOfSelected, last.term),
                         0, TRANSACTIONS_PER_PAGE)
        /\ (last.term = <<>> /\ ~showAll) =>
               paginatedTransactions =
                   slice(transactionsOfSelected, 0, TRANSACTIONS_PER_PAGE)

\* A filter without matches is cleared on an account of more than one page.
C8_Witness ==
    /\ last.op = "onSearchTransactions"
    /\ last.term = <<>>
    /\ last.matches = 0
    /\ ~showAll
    /\ Len(transactionsOfSelected) > TRANSACTIONS_PER_PAGE
    /\ Len(paginatedTransactions) = TRANSACTIONS_PER_PAGE

(***************************************************************************)
(* SpecBackup: a stored collection of two accounts; accounts are selected, *)
(* deleted and dragged, backups are exported, and files are imported: the  *)
(* last backup, a backup of another collection, and files that are no      *)
(* backup.                                                                 *)
(***************************************************************************)
MaxReads == 1

backupCollection ==
    <<Account(1, <<"a">>, <<Transaction(3, <<"a">>, 1, 1, INCOME),
                            Transaction(4, <<"b">>, 8, 1, EXPENSE)>>),
      Account(2, <<"b">>, <<>>)>>

InitBackup == InitFrom(storageOf(backupCollection), 4)

foreignFiles ==
    {[kind |-> "empty", value |-> jsonNull],
     [kind |-> "garbage", value |-> jsonNull],
     JSONstringify(jsonNull),
     JSONstringify([t |-> "object", accounts |-> jsonOfId(1),
                    selectedAccountId |-> jsonNull]),
     JSONstringify([t |-> "object", accounts |-> jsonUndefined,
                    selectedAccountId |-> jsonOfId(1)]),
     JSONstringify([t |-> "object",
                    accounts |-> jsonOfAccounts(
                        <<Account(2, <<"b">>,
                                  <<Transaction(5, <<"a">>, 0 - 1, 1, EXPENSE)>>)>>),
                    selectedAccountId |-> jsonOfId(2)])}

NextBackup ==
    \/ \E account \in rowsOf(paginatedAccounts) : setSelectedAccountId(account.id)
    \/ \E account \in rowsOf(paginatedAccounts) : handleDeleteAccount(account.id, TRUE)
    \/ \E active \in rowsOf(paginatedAccounts), over \in rowsOf(paginatedAccounts) :
          /\ active.id # over.id
          /\ handleReorderAccounts(active.id, over.id)
    \/ handleExportData
    \/ \E file \in foreignFiles \cup {download[i].text : i \in 1..Len(download)} :
          /\ Len(reads) < MaxReads
          /\ handleImportData(file)
    \/ \E confirmed \in BOOLEAN : fileReaderOnload(confirmed)
    \/ fileReaderError
    \/ reload

SpecBackup == InitBackup /\ [][NextBackup]_vars

\* The documents without an accounts array: null, accounts a string, no accounts.
malformedFiles ==
    {file \in foreignFiles :
        /\ file.kind = "json"
        /\ \/ file.value.t # "object"
           \/ file.value.accounts.t # "array"}

\* C9: the backup that export produces holds, as selectedAccountId, the id of
\* the account selected in the App, null when none is.
C9_ExportHoldsSelection ==
    last.op = "handleExportData" =>
        JSONparse(download[1].text).selectedAccountId = jsonOfId(selectedAccountId)

\* C10: a confirmed import of the unmodified backup leaves the App, and the
\* store, with the accounts the App held when the backup was exported: the same
\* accounts and transactions, in the same order, with the same ids.
C10_ExportImportRoundTrip ==
    [][(/\ last'.op = "fileReaderOnload"
        /\ last'.confirmed
        /\ download # <<>>
        /\ last'.file = download[1].text)
       => /\ accounts' = download[1].exported
          /\ loadAccounts(localStorage') = download[1].exported]_vars

\* The backup of two accounts and two transactions was imported over a
\* collection that had changed since.
C10_Witness ==
    /\ last.op = "fileReaderOnload"
    /\ last.confirmed
    /\ last.replaced
    /\ download # <<>>
    /\ last.file = download[1].text
    /\ accounts = download[1].exported
    /\ Len(accounts) = 2
    /\ \E i \in 1..Len(accounts) : Len(accounts[i].transactions) = 2

\* C11: the import of a document whose accounts field is missing or is not an
\* array shows the incorrect-format notice, asks for no confirmation, and leaves
\* the store and the state of the App as they were.
C11_MalformedImportRejected ==
    [][(last'.op = "fileReaderOnload" /\ last'.file \in malformedFiles)
       => /\ last'.notice = "incorrect format"
          /\ notice' = "incorrect format"
          /\ ~last'.asked
          /\ UNCHANGED <<localStorage, appVars, modalVars, pageVars, crashed>>]_vars

\* The document {"accounts": "..."} was read, with an account selected.
C11_Witness ==
    /\ last.op = "fileReaderOnload"
    /\ last.file = JSONstringify([t |-> "object", accounts |-> jsonOfId(1),
                                  selectedAccountId |-> jsonNull])
    /\ notice = "incorrect format"
    /\ selectedAccountId # NULL
    /\ accounts # <<>>

\* The state of an App that has just mounted, but for the accounts.
freshlyMounted ==
    /\ selectedAccountId = NULL
    /\ accountSearchTerm = <<>> /\ accountSortConfig = <<>>
    /\ transactionSearchTerm = <<>>
    /\ ~isModalOpen /\ modalContent = "none"
    /\ accountToEdit = <<>> /\ transactionToEdit = <<>>
    /\ ~showAllAccounts /\ ~showAll
    /\ accountsCurrentPage = 1 /\ currentPage = 1
    /\ ~crashed

\* C12: a confirmed import of a document with an accounts array replaces both
\* keys of the store with the document's accounts and selected id, none of the
\* previous accounts is kept, and the App is then a fresh mount on that store.
C12_ConfirmedImportReplacesAll ==
    [][(last'.op = "fileReaderOnload" /\ last'.asked /\ last'.confirmed)
       => /\ localStorage'.accounts = <<JSONstringify(JSONparse(last'.file).accounts)>>
          /\ localStorage'.selectedAccountId =
                 <<JSONstringify(selectedIdOrNull(JSONparse(last'.file)))>>
          /\ jsonOfAccounts(accounts') = JSONparse(last'.file).accounts
          /\ freshlyMounted']_vars

\* The backup of another collection, with a selected id, replaced two accounts.
C12_Witness ==
    /\ last.op = "fileReaderOnload"
    /\ last.asked /\ last.confirmed /\ last.replaced
    /\ last.file.value.selectedAccountId = jsonOfId(2)
    /\ ids(accounts) = <<2>>
    /\ localStorage.selectedAccountId = <<JSONstringify(jsonOfId(2))>>
    /\ notice = "imported"

\* C13: every import failure (no accounts array, a file that does not parse, a
\* file that cannot be read) shows a notice, changes no state, and resets the
\* file-picker input.
C13_ImportFailureNoticeAndReset ==
    [][(\/ last'.op = "fileReaderError"
        \/ /\ last'.op = "fileReaderOnload"
           /\ \/ last'.file.kind # "json"
              \/ last'.file \in malformedFiles)
       => /\ last'.notice # "none"
          /\ fileInput' = ""
          /\ UNCHANGED <<localStorage, appVars, modalVars, pageVars>>]_vars

\* C14: in every state, after any creations, edits, deletions, reorders and
\* imports, every stored transaction has an amount greater than 0.
C14_AmountsArePositive ==
    \A i \in 1..Len(accounts) :
        \A j \in 1..Len(accounts[i].transactions) :
            accounts[i].transactions[j].amount > 0

(***************************************************************************)
(* SpecOwnership: two stored accounts with transactions; the transactions  *)
(* of the selected account are added, edited, deleted and dragged.         *)
(***************************************************************************)
recordsCollection ==
    <<Account(1, <<"a">>, <<Transaction(3, <<"a">>, 1, 1, INCOME),
                            Transaction(4, <<"a">>, 1, 1, EXPENSE)>>),
      Account(2, <<"a">>, <<Transaction(5, <<"a">>, 1, 1, EXPENSE)>>)>>

InitOwnership == InitFrom(storageOf(recordsCollection), 5)

NextOwnership ==
    \/ \E account \in rowsOf(paginatedAccounts) : setSelectedAccountId(account.id)
    \/ handleCloseModal
    \/ /\ nextId <= 5 + MaxAdded
       /\ handleAddTransactionClick(INCOME)
    \/ \E transaction \in rowsOf(paginatedTransactions) :
          handleEditTransaction(transaction)
    \/ \E amount \in {"8", "0"} :
          /\ nextId <= 5 + MaxAdded
          /\ transactionFormSubmit(<<"b">>, amount, transactionTypeForForm, 2)
    \/ \E transaction \in rowsOf(paginatedTransactions), confirmed \in BOOLEAN :
          handleDeleteTransaction(processedSelectedAccount[1].id, transaction.id,
                                  confirmed)
    \/ \E active \in rowsOf(paginatedTransactions),
          over \in rowsOf(paginatedTransactions) :
          /\ active.id # over.id
          /\ handleReorderTransactions(processedSelectedAccount[1].id,
                                       active.id, over.id)

SpecOwnership == InitOwnership /\ [][NextOwnership]_vars

\* The places (account, position) of a collection where a transaction is.
placesOf(accs) ==
    UNION {{<<i, j>> : j \in 1..Len(accs[i].transactions)} : i \in 1..Len(accs)}

confirmCollection ==
    <<Account(1, <<"a">>, <<Transaction(4, <<"a">>, 1, 1, INCOME),
                            Transaction(5, <<"b">>, 8, 1, EXPENSE)>>),
      Account(2, <<"b">>, <<Transaction(6, <<"a">>, 1, 1, INCOME)>>),
      Account(3, <<"a">>, <<>>)>>

InitConfirm == InitFrom(storageOf(confirmCollection), 6)

backupFiles ==
    {file \in foreignFiles : file.kind = "json" /\ file \notin malformedFiles}

NextConfirm ==
    \/ \E account \in rowsOf(paginatedAccounts) : setSelectedAccountId(account.id)
    \/ \E account \in rowsOf(paginatedAccounts), confirmed \in BOOLEAN :
          handleDeleteAccount(account.id, confirmed)
    \/ \E transaction \in rowsOf(paginatedTransactions), confirmed \in BOOLEAN :
          handleDeleteTransaction(processedSelectedAccount[1].id, transaction.id,
                                  confirmed)
    \/ \E file \in backupFiles :
          /\ Len(reads) < MaxReads
          /\ handleImportData(file)
    \/ \E confirmed \in BOOLEAN : fileReaderOnload(confirmed)

SpecConfirm == InitConfirm /\ [][NextConfirm]_vars

\* C16: a confirmed deletion of the selected account leaves no account
\* selected, a confirmed deletion of another account leaves the selected id as
\* it was, and in every state the selected id is none or that of an account.
C16_DeleteKeepsSelectionValid ==
    /\ [](selectedAccountId = NULL \/ has(accounts, selectedAccountId))
    /\ [][(last'.op = "handleDeleteAccount" /\ last'.confirmed)
          => /\ ~has(accounts', last'.id)
             /\ selectedAccountId' =
                    IF selectedAccountId = last'.id THEN NULL ELSE selectedAccountId]_vars

\* The selected account of three was deleted: two are left, none selected.
C16_Witness ==
    /\ last.op = "handleDeleteAccount"
    /\ last.confirmed
    /\ last.selected = last.id
    /\ selectedAccountId = NULL
    /\ Len(accounts) = 2

\* C17: a declined confirmation (of the deletion of an account, of the deletion
\* of a transaction, of an import) leaves the accounts, the selection and the
\* store as they were.
C17_DeclineChangesNothing ==
    [][(\/ /\ last'.op \in {"handleDeleteAccount", "handleDeleteTransaction"}
           /\ ~last'.confirmed
        \/ /\ last'.op = "fileReaderOnload"
           /\ last'.asked
           /\ ~last'.confirmed)
       => UNCHANGED <<accounts, selectedAccountId, localStorage>>]_vars

\* The deletion of the selected account was declined: it is still selected.
C17_Witness ==
    /\ last.op = "handleDeleteAccount"
    /\ ~last.confirmed
    /\ last.selected = last.id
    /\ selectedAccountId = last.id
    /\ has(accounts, last.id)
    /\ loadAccounts(localStorage) = accounts

(***************************************************************************)
(* SpecSelect: a stored account of three pages of transactions and one of  *)
(* two pages; accounts are selected and deleted, the transactions are      *)
(* searched and paged.                                                     *)
(***************************************************************************)
pagesOfTransactions(first, n) ==
    [t \in 1..n |-> Transaction(first + t, <<"a">>, 1, 1, EXPENSE)]

selectCollection ==
    <<Account(1, <<"a">>, pagesOfTransactions(2, 2 * MaxListed - 1)),
      Account(2, <<"b">>, pagesOfTransactions(2 * MaxListed + 1, MaxListed))>>

InitSelect == InitFrom(storageOf(selectCollection), 3 * MaxListed + 1)

NextSelect ==
    \/ \E account \in rowsOf(paginatedAccounts) : setSelectedAccountId(account.id)
    \/ \E account \in rowsOf(paginatedAccounts) : handleDeleteAccount(account.id, TRUE)
    \/ \E term \in {<<>>, <<"a">>} : onSearchTransactions(term)
    \/ toggleShowAll
    \/ previousPage
    \/ nextPage

SpecSelect == InitSelect /\ [][NextSelect]_vars

\* C18: whenever the selected account changes, to another account or to none,
\* the transaction search term becomes the empty string and the transactions
\* page becomes 1.
C18_SelectionResetsTermAndPage ==
    [][selectedAccountId' # selectedAccountId
       => transactionSearchTerm' = <<>> /\ currentPage' = 1]_vars

(***************************************************************************)
(* SpecEdits: two stored accounts with transactions; accounts and          *)
(* transactions are created and edited through the modal and its forms,    *)
(* and the modal is closed.                                                *)
(***************************************************************************)
InitEdits == InitFrom(storageOf(recordsCollection), 5)

NextEdits ==
    \/ \E account \in rowsOf(paginatedAccounts) : setSelectedAccountId(account.id)
    \/ /\ nextId <= 5 + MaxAdded
       /\ handleOpenModalAccount
    \/ \E account \in rowsOf(paginatedAccounts) : handleEditAccount(account)
    \/ \E name \in {<<"b">>, <<" ">>} :
          /\ nextId <= 5 + MaxAdded
          /\ accountFormSubmit(name)
    \/ handleCloseModal
    \/ /\ nextId <= 5 + MaxAdded
       /\ handleAddTransactionClick(INCOME)
    \/ \E transaction \in rowsOf(paginatedTransactions) :
          handleEditTransaction(transaction)
    \/ \E amount \in {"8", "0"}, type \in TransactionTypes :
          /\ nextId <= 5 + MaxAdded
          /\ transactionFormSubmit(<<"b">>, amount, type, 2)

SpecEdits == InitEdits /\ [][NextEdits]_vars

\* C19: whenever the modal is closed, the account edit target and the
\* transaction edit target are empty and the modal content is none.
C19_ClosedModalHasNoTarget ==
    ~isModalOpen =>
        accountToEdit = <<>> /\ transactionToEdit = <<>> /\ modalContent = "none"

\* The edit of an account was submitted: the modal closed and holds no target.
C19_Witness ==
    /\ last.op = "accountFormSubmit"
    /\ last.edit
    /\ ~isModalOpen
    /\ accountToEdit = <<>>
    /\ \E i \in 1..Len(accounts) : accounts[i].name = <<"b">>

\* C20: a submit in edit mode changes only the fields of the edited record.
\* The edit of an account replaces its name and keeps its id, its transactions
\* and its position; the edit of a transaction replaces its description, amount
\* and type and keeps its id, its date and its position; every other account
\* and transaction is as it was.
C20_EditChangesOnlyTheRecord ==
    [][/\ (last'.op = "accountFormSubmit" /\ last'.edit)
          => \/ accounts' = accounts
             \/ /\ Len(accounts') = Len(accounts)
                /\ \A i \in 1..Len(accounts) :
                      accounts'[i] =
                          IF accounts[i].id = accountToEdit[1].id
                          THEN Account(accounts[i].id, last'.name,
                                       accounts[i].transactions)
                          ELSE accounts[i]
       /\ (last'.op = "transactionFormSubmit" /\ last'.edit)
          => \/ accounts' = accounts
             \/ /\ Len(accounts') = Len(accounts)
                /\ \A i \in 1..Len(accounts) :
                      /\ accounts'[i].id = accounts[i].id
                      /\ accounts'[i].name = accounts[i].name
                      /\ Len(accounts'[i].transactions) = Len(accounts[i].transactions)
                      /\ \A j \in 1..Len(accounts[i].transactions) :
                            LET t == accounts[i].transactions[j]
                            IN  accounts'[i].transactions[j] =
                                    IF t.id = transactionToEdit[1].id
                                    THEN Transaction(t.id, last'.description,
                                                     parseFloat(last'.amount)[1],
                                                     t.date, last'.type)
                                    ELSE t]_vars

\* The first transaction of account 1 was edited: new description, amount and
\* type, the old id and date, and the second transaction after it as before.
C20_Witness ==
    /\ last.op = "transactionFormSubmit"
    /\ last.edit
    /\ accounts[1].id = 1
    /\ accounts[1].transactions =
           <<Transaction(3, <<"b">>, 8, 1, EXPENSE),
             Transaction(4, <<"a">>, 1, 1, EXPENSE)>>
    /\ accounts[2] = recordsCollection[2]

(***************************************************************************)
(* SpecForms: the two forms are opened, for a new record or for an edit,   *)
(* and submitted with fields that are valid and fields that are not.       *)
(***************************************************************************)
InitForms == InitFrom(storageOf(recordsCollection), 5)

NextForms ==
    \/ \E account \in rowsOf(paginatedAccounts) : setSelectedAccountId(account.id)
    \/ /\ ~isModalOpen
       /\ handleOpenModalAccount
    \/ \E account \in rowsOf(paginatedAccounts) :
          /\ ~isModalOpen
          /\ handleEditAccount(account)
    \/ \E name \in {<<"b">>, <<>>, <<" ">>, <<" ", " ">>} :
          /\ nextId <= 5 + MaxAdded
          /\ accountFormSubmit(name)
    \/ handleCloseModal
    \/ /\ ~isModalOpen
       /\ handleAddTransactionClick(INCOME)
    \/ \E transaction \in rowsOf(paginatedTransactions) :
          /\ ~isModalOpen
          /\ handleEditTransaction(transaction)
    \/ \E description \in {<<"b">>, <<>>, <<" ">>}, amount \in {"8", "", "0", "-1"} :
          /\ nextId <= 5 + MaxAdded
          /\ transactionFormSubmit(description, amount, transactionTypeForForm, 2)

SpecForms == InitForms /\ [][NextForms]_vars

\* A text that is empty once its white space is trimmed.
blank(text) == \A i \in 1..Len(text) : text[i] = " "

\* C21: a submit of the account form with a name that is empty after trimming,
\* or of the transaction form with a description that is empty after trimming
\* or an amount that is no number or not greater than 0, changes no state: the
\* accounts and the store are as before, the modal is open with its target.
C21_InvalidSubmitChangesNothing ==
    [][(\/ last'.op = "accountFormSubmit" /\ blank(last'.name)
        \/ /\ last'.op = "transactionFormSubmit"
           /\ \/ blank(last'.description)
              \/ last'.amount \in {"", "0", "-1"})
       => /\ UNCHANGED <<appVars, modalVars, pageVars, localStorage, nextId>>
          /\ isModalOpen']_vars

\* The edit of a transaction was submitted with a blank description: the modal
\* is open on the same transaction, which is as it was.
C21_Witness ==
    /\ last.op = "transactionFormSubmit"
    /\ last.edit
    /\ last.description = <<" ">>
    /\ last.amount = "8"
    /\ isModalOpen
    /\ modalContent = "transaction"
    /\ transactionToEdit # <<>>
    /\ has(transactionsOfSelected, transactionToEdit[1].id)
    /\ accounts = recordsCollection

(***************************************************************************)
(* SpecPages: MaxListed stored accounts, the first with MaxListed          *)
(* transactions; both lists are paged, shown whole, searched, and          *)
(* shortened from the top.                                                 *)
(***************************************************************************)
pagesCollection ==
    [a \in 1..MaxListed |->
        Account(a, IF a % 2 = 1 THEN <<"a">> ELSE <<"a", "b">>,
                IF a = 1 THEN pagesOfTransactions(MaxListed, MaxListed) ELSE <<>>)]

InitPages == InitFrom(storageOf(pagesCollection), 2 * MaxListed)

NextPages ==
    \/ /\ selectedAccountId = NULL
       /\ paginatedAccounts # <<>>
       /\ setSelectedAccountId(paginatedAccounts[1].id)
    \/ /\ paginatedAccounts # <<>>
       /\ Len(accounts) > 1
       /\ handleDeleteAccount(accounts[Len(accounts)].id, TRUE)
    \/ /\ paginatedTransactions # <<>>
       /\ handleDeleteTransaction(processedSelectedAccount[1].id,
                                  paginatedTransactions[1].id, TRUE)
    \/ \E term \in {<<>>, <<"b">>} : setAccountSearchTerm(term)
    \/ toggleShowAllAccounts
    \/ accountsPreviousPage
    \/ accountsNextPage
    \/ toggleShowAll
    \/ previousPage
    \/ nextPage

SpecPages == InitPages /\ [][NextPages]_vars

\* The pages first..pages of a list, one after the other.
RECURSIVE accountPagesFrom(_, _, _)
accountPagesFrom(list, first, pages) ==
    IF first > pages THEN <<>>
    ELSE paginatedAccountsOf(list, first, FALSE) \o accountPagesFrom(list, first + 1, pages)

RECURSIVE transactionPagesFrom(_, _, _)
transactionPagesFrom(account, first, pages) ==
    IF first > pages THEN <<>>
    ELSE paginatedTransactionsOf(account, first, FALSE)
             \o transactionPagesFrom(account, first + 1, pages)

\* pages is the least number of pages of 5 that hold n elements.
isPageCount(pages, n) == pages >= 0 /\ 5 * pages >= n /\ 5 * (pages - 1) < n

\* C22: with show-all off, a list of N elements has ceil(N/5) pages and the pages
\* 1..ceil(N/5), one after the other, are the filtered and sorted list; with
\* show-all on, the visible list is that whole list on every page.  For the
\* accounts and for the transactions of the selected account.
C22_PagesPartitionTheList ==
    /\ LET list == sortedAndFilteredAccounts.list
           pages == ceilDiv(Len(list), ACCOUNTS_PER_PAGE)
       IN  /\ isPageCount(pages, Len(list))
           /\ accountPagesFrom(list, 1, pages) = list
           /\ paginatedAccountsOf(list, accountsCurrentPage, TRUE) = list
           /\ paginatedAccounts =
                  IF showAllAccounts THEN list
                  ELSE paginatedAccountsOf(list, accountsCurrentPage, FALSE)
    /\ LET account == processedSelectedAccount
           list == detailTransactions(account)
       IN  /\ isPageCount(totalPages, Len(list))
           /\ transactionPagesFrom(account, 1, totalPages) = list
           /\ paginatedTransactionsOf(account, currentPage, TRUE) = list
           /\ paginatedTransactions =
                  IF showAll THEN list
                  ELSE paginatedTransactionsOf(account, currentPage, FALSE)

\* Both lists are on their second page of two, which holds what the first left.
C22_Witness ==
    /\ ~showAllAccounts /\ ~showAll
    /\ accountsCurrentPage = 2 /\ currentPage = 2
    /\ Len(sortedAndFilteredAccounts.list) > ACCOUNTS_PER_PAGE
    /\ Len(paginatedAccounts) = Len(sortedAndFilteredAccounts.list) - ACCOUNTS_PER_PAGE
    /\ Len(transactionsOfSelected) > TRANSACTIONS_PER_PAGE
    /\ Len(paginatedTransactions) = Len(transactionsOfSelected) - TRANSACTIONS_PER_PAGE

(***************************************************************************)
(* SpecFilter: stored accounts and transactions whose texts differ in      *)
(* case and white space; both lists are searched.                          *)
(***************************************************************************)
filterCollection ==
    <<Account(1, <<"a", "b">>, <<Transaction(4, <<"A", "b">>, 1, 1, INCOME),
                                 Transaction(5, <<"a">>, 1, 1, EXPENSE),
                                 Transaction(6, <<" ", "b">>, 1, 1, INCOME)>>),
      Account(2, <<"A">>, <<>>),
      Account(3, <<"b", " ">>, <<>>)>>

InitFilter == InitFrom(storageOf(filterCollection), 6)

queries ==
    {<<>>, <<" ">>, <<" ", " ">>, <<"a">>, <<"A">>, <<"b">>, <<"A", "B">>,
     <<" ", "b">>, <<"b", " ">>, <<"b", "a">>}

NextFilter ==
    \/ \E account \in rowsOf(paginatedAccounts) : setSelectedAccountId(account.id)
    \/ \E term \in queries : setAccountSearchTerm(term)
    \/ \E term \in queries : onSearchTransactions(term)

SpecFilter == InitFilter /\ [][NextFilter]_vars

\* Two characters that are the same letter, whatever their case.
sameLetter(c, d) == c = d \/ {c, d} = {"a", "A"} \/ {c, d} = {"b", "B"}

\* The query occurs in the text as a run of letters, whatever their case.
containsIgnoringCase(text, query) ==
    \E i \in 0..(Len(text) - Len(query)) :
        \A j \in 1..Len(query) : sameLetter(text[i + j], query[j])

\* C24: the filtered list holds exactly the elements whose text (the name of an
\* account, the description of a transaction) contains the query, whatever the
\* case of the letters, in their stored order; a query that is empty or all
\* white space gives the list unfiltered.
C24_FilterKeepsMatches ==
    /\ sortedAndFilteredAccounts.list =
           IF blank(accountSearchTerm) THEN accounts
           ELSE SelectSeq(accounts, LAMBDA account :
                    containsIgnoringCase(account.name, accountSearchTerm))
    /\ detailTransactions(processedSelectedAccount) =
           IF blank(transactionSearchTerm) THEN transactionsOfSelected
           ELSE SelectSeq(transactionsOfSelected, LAMBDA t :
                    containsIgnoringCase(t.description, transactionSearchTerm))

\* The query "AB" keeps the account "ab" and the transaction "Ab", and no more.
C24_Witness ==
    /\ accountSearchTerm = <<"A", "B">>
    /\ transactionSearchTerm = <<"A", "B">>
    /\ ids(sortedAndFilteredAccounts.list) = <<1>>
    /\ ids(detailTransactions(processedSelectedAccount)) = <<4>>


(***************************************************************************)
(* SpecTotals: two stored accounts, the first with one income; the         *)
(* transactions of both are added and the accounts are dragged.            *)
(***************************************************************************)
\* App.totalBalance: accounts.reduce((total, account) => total + income -
\* expense, 0), the income and the expense of an account added up as in the
\* summary; total + income - expense is (total + income) - expense.
RECURSIVE totalBalanceOf(_)
totalBalanceOf(accs) ==
    IF accs = <<>> THEN 0
    ELSE LET account == accs[Len(accs)]
             total   == totalBalanceOf(SubSeq(accs, 1, Len(accs) - 1))
             income  == reduceAmounts(SelectSeq(account.transactions, isIncome))
             expense == reduceAmounts(SelectSeq(account.transactions, isExpense))
         IN  numberSub(numberAdd(total, income), expense)

totalBalance == totalBalanceOf(accounts)

totalsCollection ==
    <<Account(1, <<"a">>, <<Transaction(3, <<"a">>, 1, 1, INCOME)>>),
      Account(2, <<"b">>, <<>>)>>

InitTotals == InitFrom(storageOf(totalsCollection), 3)

NextTotals ==
    \/ \E account \in rowsOf(paginatedAccounts) : setSelectedAccountId(account.id)
    \/ \E type \in TransactionTypes : handleAddTransactionClick(type)
    \/ \E amount \in {"1", "8"}, type \in TransactionTypes :
          /\ Len(transactionsOfSelected) < MaxLedger - 1
          /\ transactionFormSubmit(<<"a">>, amount, type, 1)
    \/ \E active \in rowsOf(paginatedAccounts), over \in rowsOf(paginatedAccounts) :
          /\ active.id # over.id
          /\ handleReorderAccounts(active.id, over.id)

SpecTotals == InitTotals /\ [][NextTotals]_vars

\* The balances of the summaries of the accounts, added up one after the other.
RECURSIVE sumOfBalances(_)
sumOfBalances(accs) ==
    IF accs = <<>> THEN 0
    ELSE numberAdd(sumOfBalances(SubSeq(accs, 1, Len(accs) - 1)),
                   calculateAccountSummary(accs[Len(accs)]).balance)

\* C25: the total balance of the collection is the sum, over all the accounts,
\* of the balance of the summary of the account, accounts with a negative
\* balance included.
C25_TotalIsSumOfBalances == totalBalance = sumOfBalances(accounts)


(***************************************************************************)
(* SpecSheets: one stored account with MaxLedger transactions of any       *)
(* amounts and types; its rows are dragged and the collection is exported  *)
(* to a spreadsheet.                                                       *)
(***************************************************************************)
\* ExportButton.exportToXLSX, the rows of the sheet 'Cuentas'.
accountsData(accs) ==
    [i \in 1..Len(accs) |->
        LET income  == reduceAmounts(SelectSeq(accs[i].transactions, isIncome))
            expense == reduceAmounts(SelectSeq(accs[i].transactions, isExpense))
        IN  [Cuenta |-> accs[i].name, Ingresos |-> income, Gastos |-> expense,
             Balance |-> numberSub(income, expense)]]

\* runningBalance after the first k transactions: += amount for an INCOME,
\* -= amount for any other type.
RECURSIVE runningBalance(_, _)
runningBalance(ts, k) ==
    IF k = 0 THEN 0
    ELSE IF ts[k].type = INCOME
         THEN numberAdd(runningBalance(ts, k - 1), ts[k].amount)
         ELSE numberSub(runningBalance(ts, k - 1), ts[k].amount)

\* ExportButton.exportToXLSX, the rows of the sheet of an account.
transactionsData(account) ==
    [k \in 1..Len(account.transactions) |->
        [Transaccion |-> account.transactions[k].description,
         Saldo |-> runningBalance(account.transactions, k)]]

\* ExportButton.exportToXLSX: the workbook is built from the accounts and handed
\* to the browser as mis-finanzas.xlsx.
exportToXLSX ==
    /\ ~crashed
    /\ download' = <<[text |-> [kind |-> "xlsx",
                                value |-> [Cuentas |-> accountsData(accounts),
                                           sheets |-> [i \in 1..Len(accounts) |->
                                               transactionsData(accounts[i])]]]]>>
    /\ unchangedApp
    /\ unchangedModal
    /\ UNCHANGED <<showAllAccounts, accountsCurrentPage, showAll, localStorage, reads,
                   fileInput, notice, nextId>>
    /\ last' = [op |-> "exportToXLSX"]

sheetsLedgers ==
    {[k \in 1..MaxLedger |-> Transaction(1 + k, <<"a">>, amounts[k], 1, types[k])] :
        amounts \in [1..MaxLedger -> {1, 8}],
        types \in [1..MaxLedger -> TransactionTypes]}

InitSheets ==
    \E ts \in sheetsLedgers :
        InitFrom(storageOf(<<Account(1, <<"a">>, ts)>>), MaxLedger + 2)

NextSheets ==
    \/ \E account \in rowsOf(paginatedAccounts) : setSelectedAccountId(account.id)
    \/ \E active \in rowsOf(paginatedTransactions),
          over \in rowsOf(paginatedTransactions) :
          /\ active.id # over.id
          /\ handleReorderTransactions(processedSelectedAccount[1].id,
                                       active.id, over.id)
    \/ exportToXLSX

SpecSheets == InitSheets /\ [][NextSheets]_vars

\* C26: in the exported workbook the running balance of the k-th row of the
\* sheet of an account is the sum of the INCOME amounts minus the sum of the
\* EXPENSE amounts of the first k transactions in stored order, and the running
\* balance of the last row is the balance of the row of the account in the
\* sheet of the accounts.
C26_RunningBalanceIsIncomeMinusExpense ==
    [][last'.op = "exportToXLSX" =>
        LET workbook == download'[1].text.value
        IN  \A i \in 1..Len(accounts) :
                LET ts == accounts[i].transactions
                    n  == Len(ts)
                IN  /\ Len(workbook.sheets[i]) = n
                    /\ \A k \in 1..n :
                           workbook.sheets[i][k].Saldo =
                               numberSub(sumOfType(ts, INCOME, k),
                                         sumOfType(ts, EXPENSE, k))
                    /\ n > 0 => workbook.sheets[i][n].Saldo =
                                    workbook.Cuentas[i].Balance]_vars


(***************************************************************************)
(* SpecDrag: more stored accounts than a page holds, one of them not       *)
(* matched by the search, the first with as many transactions, one of them *)
(* not matched; both lists are searched and paged, and the row that was   *)
(* first of each is dragged onto the rows shown with it.                   *)
(***************************************************************************)
DragSize == ACCOUNTS_PER_PAGE + 2

dragCollection ==
    [a \in 1..DragSize |->
        Account(a, IF a = 2 THEN <<"b">> ELSE <<"a">>,
                IF a = 1
                THEN [k \in 1..DragSize |->
                         Transaction(DragSize + k, IF k = 2 THEN <<"b">> ELSE <<"a">>,
                                     1, 1, INCOME)]
                ELSE <<>>)]

InitDrag == InitFrom(storageOf(dragCollection), 2 * DragSize + 1)

NextDrag ==
    \/ \E account \in rowsOf(paginatedAccounts) :
          /\ account.id = 1
          /\ setSelectedAccountId(account.id)
    \/ \E term \in {<<>>, <<"a">>} : setAccountSearchTerm(term)
    \/ \E term \in {<<>>, <<"a">>} : onSearchTransactions(term)
    \/ accountsPreviousPage
    \/ accountsNextPage
    \/ previousPage
    \/ nextPage
    \/ \E active \in rowsOf(paginatedAccounts), over \in rowsOf(paginatedAccounts) :
          /\ active.id = 1
          /\ active.id # over.id
          /\ handleReorderAccounts(active.id, over.id)
    \/ \E active \in rowsOf(paginatedTransactions),
          over \in rowsOf(paginatedTransactions) :
          /\ active.id = DragSize + 1
          /\ active.id # over.id
          /\ handleReorderTransactions(processedSelectedAccount[1].id,
                                       active.id, over.id)

SpecDrag == InitDrag /\ [][NextDrag]_vars

\* C27: when a row shown by a filtered or paginated list that is not sorted is
\* dropped on another row shown with it, the list filtered from the new
\* collection is the old filtered list with the moved element at the place of
\* the target in that filtered list, the rows shown are the current page of
\* it, and the collection holds the elements it held, each once.
C27_ReorderOfVisibleRows ==
    [][/\ (/\ last'.op = "handleReorderAccounts"
           /\ accountSortConfig = <<>>
           /\ has(paginatedAccounts, last'.activeId)
           /\ has(paginatedAccounts, last'.overId))
          => LET new == sortedAndFilteredAccounts.list'
             IN  /\ relocated(sortedAndFilteredAccounts.list, new,
                              last'.activeId, last'.overId)
                 /\ paginatedAccounts' =
                        paginatedAccountsOf(new, accountsCurrentPage, showAllAccounts)
                 /\ isPermutationOf(accounts', accounts)
       /\ (/\ last'.op = "handleReorderTransactions"
           /\ has(paginatedTransactions, last'.activeId)
           /\ has(paginatedTransactions, last'.overId))
          => LET account == processedSelectedAccount[1]
                 new == detailTransactions(processedSelectedAccount')
             IN  /\ relocated(account.transactions, new, last'.activeId, last'.overId)
                 /\ processedSelectedAccount' = <<[account EXCEPT !.transactions = new]>>
                 /\ paginatedTransactions' =
                        paginatedTransactionsOf(processedSelectedAccount',
                                                currentPage, showAll)
                 /\ isPermutationOf(transactionsOfSelected', transactionsOfSelected)
                 /\ Len(accounts') = Len(accounts)
                 /\ \A i \in 1..Len(accounts) :
                        \/ accounts'[i] = accounts[i]
                        \/ /\ accounts[i].id = account.id
                           /\ accounts'[i] = [accounts[i] EXCEPT !.transactions =
                                                 transactionsOfSelected']]_vars

\* Both lists are searched and on their first page of two.  The first account
\* was dropped on the last row of its page, passing the account the search
\* leaves out, and the first transaction had been dropped the same way.
C27_Witness ==
    /\ last.op = "handleReorderAccounts"
    /\ last.activeId = 1
    /\ last.overId = DragSize - 1
    /\ accountSearchTerm = <<"a">>
    /\ transactionSearchTerm = <<"a">>
    /\ accountsCurrentPage = 1
    /\ currentPage = 1
    /\ ids(accounts) = <<2, 3, 4, 5, 6, 1, 7>>
    /\ ids(paginatedAccounts) = <<3, 4, 5, 6, 1>>
    /\ ids(transactionsOfSelected) = <<9, 10, 11, 12, 13, 8, 14>>
    /\ ids(paginatedTransactions) = <<10, 11, 12, 13, 8>>


(***************************************************************************)
(* SpecReplace: the buttons that open a form are pressed whether or not a  *)
(* form is open (the App's handlers do not look at isModalOpen; the        *)
(* buttons stay in the tab order of the page under the overlay).           *)
(***************************************************************************)
InitReplace == InitFrom(storageOf(recordsCollection), 5)

NextReplace ==
    \/ \E account \in rowsOf(paginatedAccounts) : setSelectedAccountId(account.id)
    \/ handleOpenModalAccount
    \/ \E account \in rowsOf(paginatedAccounts) : handleEditAccount(account)
    \/ \E name \in {<<"b">>, <<>>} :
          /\ nextId <= 5 + MaxAdded
          /\ accountFormSubmit(name)
    \/ handleCloseModal
    \/ handleAddTransactionClick(INCOME)
    \/ \E transaction \in rowsOf(paginatedTransactions) :
          handleEditTransaction(transaction)
    \/ \E description \in {<<"b">>, <<>>} :
          /\ nextId <= 5 + MaxAdded
          /\ transactionFormSubmit(description, "8", transactionTypeForForm, 2)

SpecReplace == InitReplace /\ [][NextReplace]_vars

\* C28: a submit of the account form that the new-account button opened, with
\* a name that is not blank, appends an account with a fresh id and no
\* transactions and leaves the accounts there were as they were, also when the
\* button was pressed while another form was open.
C28_NewAccountFormAppends ==
    [][(/\ last.op = "handleOpenModal"
        /\ last'.op = "accountFormSubmit"
        /\ ~blank(last'.name))
       => /\ accounts' = Append(accounts, Account(nextId, last'.name, <<>>))
          /\ ~has(accounts, nextId)
          /\ ~isModalOpen']_vars


(***************************************************************************)
(* SpecView: the stored collection of SpecPages; every control that        *)
(* changes what is shown is used, and accounts are deleted from the end.   *)
(***************************************************************************)
InitView == InitFrom(storageOf(pagesCollection), 2 * MaxListed)

NextView ==
    \/ \E account \in rowsOf(paginatedAccounts) :
          /\ account.id <= 2
          /\ setSelectedAccountId(account.id)
    \/ \E term \in {<<>>, <<"a">>} : setAccountSearchTerm(term)
    \/ \E term \in {<<>>, <<"a">>} : onSearchTransactions(term)
    \/ \E key \in {"name", "balance"} : handleSortAccounts(key)
    \/ toggleShowAllAccounts
    \/ accountsPreviousPage
    \/ accountsNextPage
    \/ toggleShowAll
    \/ previousPage
    \/ nextPage
    \/ /\ Len(accounts) >= MaxListed
       /\ handleDeleteAccount(accounts[Len(accounts)].id, TRUE)

SpecView == InitView /\ [][NextView]_vars

\* The handlers that change what is shown: the two search terms, the sort, the
\* pages, the show-all flags and the selection.
viewOps ==
    {"setSelectedAccountId", "setAccountSearchTerm", "onSearchTransactions",
     "handleSortAccounts", "setShowAllAccounts", "accountsPreviousPage",
     "accountsNextPage", "setShowAll", "previousPage", "nextPage"}

\* C29: a change of a search term, of the sort, of a page, of a show-all flag
\* or of the selection leaves the accounts as they are: the same accounts in
\* the same stored order, each with the same transactions in the same order.
C29_ViewChangesKeepAccounts ==
    [][last'.op \in viewOps
       => /\ accounts' = accounts
          /\ loadAccounts(localStorage') = loadAccounts(localStorage)]_vars

\* The accounts are shown searched and sorted by name from the last to the
\* first, in another order than the stored one, which is as it was stored; the
\* transactions of the first account are on their second page.
C29_Witness ==
    /\ last.op = "handleSortAccounts"
    /\ accountSortConfig = <<[key |-> "name", direction |-> "desc"]>>
    /\ accountSearchTerm = <<"a">>
    /\ ~crashed
    /\ accounts = pagesCollection
    /\ sortedAndFilteredAccounts.list # filterAccounts(accounts, accountSearchTerm)
    /\ selectedAccountId = 1
    /\ currentPage = 2


(***************************************************************************)
(* SpecImports: files are picked while reads are pending, the accounts are *)
(* deleted and dragged in between, and the pending reads complete in any   *)
(* order.                                                                  *)
(***************************************************************************)
InitImports == InitFrom(storageOf(backupCollection), 4)

importFiles ==
    {JSONstringify(jsonNull),
     JSONstringify([t |-> "object",
                    accounts |-> jsonOfAccounts(
                        <<Account(2, <<"b">>,
                                  <<Transaction(5, <<"a">>, 1, 1, EXPENSE)>>)>>),
                    selectedAccountId |-> jsonOfId(2)])}

NextImports ==
    \/ \E account \in rowsOf(paginatedAccounts) : handleDeleteAccount(account.id, TRUE)
    \/ \E active \in rowsOf(paginatedAccounts), over \in rowsOf(paginatedAccounts) :
          /\ active.id # over.id
          /\ handleReorderAccounts(active.id, over.id)
    \/ handleExportData
    \/ \E file \in importFiles \cup {download[i].text : i \in 1..Len(download)} :
          /\ Len(reads) <= MaxReads
          /\ handleImportData(file)
    \/ \E i \in 1..(MaxReads + 1), confirmed \in BOOLEAN :
          fileReaderOnloadOf(i, confirmed)
    \/ fileReaderError

SpecImports == InitImports /\ [][NextImports]_vars

\* The accounts a backup document holds.
accountsOfFile(file) ==
    LET items == JSONparse(file).accounts.items
    IN  [i \in 1..Len(items) |-> accountOfJson(items[i])]

\* C30: however deletions, drags, exports, picks of files and completions of
\* reads interleave (a second file picked before the read of the first
\* completes included), the store mirrors the accounts of the App after every
\* handler, and when a confirmed import completes the stored accounts are
\* exactly the accounts of that file: what was changed while the read was
\* pending and what an earlier import brought is gone, and no read is pending.
C30_ConfirmedImportOverwrites ==
    /\ [](loadAccounts(localStorage) = accounts)
    /\ [][(last'.op = "fileReaderOnload" /\ last'.asked /\ last'.confirmed)
          => /\ loadAccounts(localStorage') = accountsOfFile(last'.file)
             /\ accounts' = accountsOfFile(last'.file)
             /\ reads' = <<>>]_vars

\* Two reads were pending: the backup exported from the App, picked second,
\* completed first and was confirmed.  It brought back the two accounts, of
\* which the App had one left by then.
C30_Witness ==
    /\ last.op = "fileReaderOnload"
    /\ last.asked /\ last.confirmed /\ last.replaced
    /\ last.pending = 2
    /\ last.index = 2
    /\ download # <<>>
    /\ last.file = download[1].text
    /\ accounts = backupCollection
    /\ loadAccounts(localStorage) = backupCollection
    /\ reads = <<>>

=============================================================================
